---- MODULE Spec2Model ----
(***************************************************************************)
(* A model of the field/label resolution and layout-fitting engine of the  *)
(* inspection-report generator: title normalisation and resolution,        *)
(* grouping of line items, status aggregation, the form-field allocator    *)
(* and the text-fit helpers.                                               *)
(*                                                                         *)
(* Strings on which the code does character work (titles, comment values,  *)
(* comment tags, rendered blocks) are sequences of one-character strings.  *)
(* Names that are only used as dictionary keys stay TLA+ strings.          *)
(***************************************************************************)
EXTENDS Integers, Sequences, FiniteSets, TLC

VARIABLES
    \* ---- title lookup and resolver
    variant,      \* which program runs: "util" (util_map_and_extract) or "fill" (fill_pdf_form)
    mapping,      \* the mapping table, as the sequence of (major, src, canonical) met by
                  \* "for major, m in mapping.items(): for src, canonical in m.items()"
    lookup,       \* the TitleLookup: an insertion-ordered dict, as a sequence of [key, val]
    title,        \* the argument of the last resolve_item call
    result,       \* its return value (None or <<major, canonical>>)
    rpc,          \* position of the resolver run
    \* ---- grouping engine
    data,         \* the line items walked so far, in walk order (sections, then lineItems)
    grouped,      \* group_items_detailed: major -> subsection -> list of items
    fgrouped,     \* group_by_subsection: subsection -> list of bullet lines
    unmatched,    \* group_by_subsection: the unmapped titles, in walk order
    \* ---- status aggregator
    items,        \* the argument of compute_subsection_status
    status,       \* its return value
    spc,          \* position of the status run
    \* ---- layout allocator (fill_pdf_form.main)
    page_widgets, \* page number -> the text widgets page_text_widgets returns for it
    apc,          \* position of the allocation: "page", "pair" or "done"
    page_ix,      \* index, in PAGE_SUBSECTIONS' order, of the page being processed
    widgets,      \* the page's multi-line widgets, sorted
    ix,           \* loop index i of "for i in range(n)"
    fields,       \* <<page, field name>> -> value written by update_page_form_field_values
    payload_log,  \* one record per pair processed
    narrative_overflow, \* subsection -> items deferred to the narrative pages
    output,       \* None until OUTPUT is written, then what it holds
    \* ---- font fit (fit_font_size, fit_draw, _fit_draw)
    f_fn,         \* the function called: "fit_font_size" or "fit_draw"
    f_text,       \* its text argument
    f_max_w,      \* its width limit (max_width / max_w), in 1/4000 pt
    f_start,      \* its start size (max_size / start), in quarter points
    f_min,        \* its min_size, in quarter points
    f_size,       \* the size returned, or set on the canvas, in quarter points
    fpc,          \* position of the font-fit run
    \* ---- elision (elide_to_width)
    e_text,       \* the text argument
    e_size,       \* the size argument, in quarter points
    e_max_w,      \* the max_width argument, in 1/4000 pt
    lo,           \* local lo of the binary search
    hi,           \* local hi
    best,         \* local best
    e_result,     \* the return value
    epc,          \* position in elide_to_width: "call", "loop" or "done"
    \* ---- normalize_title called on its own
    n_x,          \* the argument s
    n_key,        \* the return value
    npc,          \* position of the run
    \* ---- entry points and the files they read and write
    entry,        \* the entry point run: "fill", "expanded", "script" or "probe"
    present,      \* the input files that exist when the run starts
    xstep,        \* index of the next file step of the entry point
    written,      \* the files the run has created or rewritten
    outcome,      \* "running", "raised" or "done"
    \* ---- media collection (_collect_images and its _save_bytes)
    m_refs,       \* line_item["images"]: the media references, in input order
    m_ix,         \* how many of them harvest has handled
    m_out,        \* the list out
    m_requests,   \* the URLs given to urllib.request.urlopen, in order
    disk,         \* IMAGES_DIR: file name -> content
    writes,       \* the file names given to write_bytes, in order
    s_call,       \* arguments of the last _save_bytes call
    s_path,       \* its return value
    s_hist,       \* every (arguments, return value) of _save_bytes so far
    mpc,          \* "harvest", "done", "raised"; "save" for _save_bytes on its own
    \* ---- prepend_trec_pages
    p_same,       \* the input whose absolute path out_pdf shares: "none", "body", "template"
    p_json,       \* whether json_path can be opened and parsed: "ok" or "missing"
    p_inputs_ok,  \* whether template_pdf and body_pdf can be read
    p_out0,       \* the file at out_pdf before the call: "absent" or "old"
    p_out,        \* the file at out_pdf now: "absent", "old", "partial" or "final"
    p_tmp,        \* the file at out_pdf + ".__tmp.pdf": "absent", "partial", "complete"
    p_overlay,    \* the file at out_pdf + ".__p1_overlay.pdf", likewise
    p_touched,    \* the files created, modified or removed so far
    p_exc,        \* the exception that left the call, or None
    ppc,          \* position in prepend_trec_pages
    \* ---- NumberedCanvas
    c_class,      \* whose NumberedCanvas this is: "script" or "bonus_pdf"
    c_offset,     \* self.page_offset (script only; bonus_pdf has none: 0)
    c_number,     \* self._pageNumber
    c_code,       \* self._code: what was drawn on the page in progress
    c_saved,      \* self._saved_page_states: (_pageNumber, _code) of each saved state
    c_emitted,    \* the pages of the document, in order: content and footer label
    c_calls,      \* the contents of the pages at the client's showPage calls, in order
    c_ix,         \* how many saved states the loop of save has handled
    cpc,          \* "open", "saving" or "closed"
    \* ---- download cache (download_url, download_to_cache)
    d_class,      \* whose function runs: "script" (download_url) or "bonus_pdf" (download_to_cache)
    d_cache,      \* the cache directory: file name -> content
    d_hist,       \* one record per call so far: url, returned path, what the path held
    dpc,          \* "ready" or "idle"
    \* ---- build_flow_pdf
    story,        \* the flowables appended so far: major headings, subsection headings, items
    w_major,      \* index in ORDERED_MAJOR of the major being handled
    w_sub,        \* index, in the major's subsection list, of the subsection being handled
    wpc,          \* "major", "sub", "done" or "idle"
    \* ---- severity_bucket
    b_comment,    \* the comment: its "type" and "tag" (absent, None and "" are <<>>)
    b_bucket,     \* the return value, or None before the call
    bpc           \* "start", "done" or "idle"

rvars == <<variant, mapping, lookup, title, result, rpc>>
gvars == <<data, grouped, fgrouped, unmatched>>
svars == <<items, status, spc>>
avars == <<page_widgets, apc, page_ix, widgets, ix, fields, payload_log,
           narrative_overflow, output>>

fvars == <<f_fn, f_text, f_max_w, f_start, f_min, f_size, fpc>>
evars == <<e_text, e_size, e_max_w, lo, hi, best, e_result, epc>>

nvars == <<n_x, n_key, npc>>

xvars == <<entry, present, xstep, written, outcome>>

mvars == <<m_refs, m_ix, m_out, m_requests, disk, writes, s_call, s_path, s_hist, mpc>>

pvars == <<p_same, p_json, p_inputs_ok, p_out0, p_out, p_tmp, p_overlay, p_touched, p_exc, ppc>>

cvars == <<c_class, c_offset, c_number, c_code, c_saved, c_emitted, c_calls, c_ix, cpc>>

dvars == <<d_class, d_cache, d_hist, dpc>>

wvars == <<story, w_major, w_sub, wpc>>

bvars == <<b_comment, b_bucket, bpc>>

vars == <<rvars, gvars, svars, avars, fvars, evars, nvars, xvars, mvars, pvars, cvars, dvars, wvars, bvars>>

-----------------------------------------------------------------------------
(* Bounds of the model *)

\* most entries in a mapping table
MaxEntries == 3

\* most line items in the inspection data
MaxItems == 2

\* most comments in the inspection data, over all line items
MaxComments == 3

\* most items in a list given to compute_subsection_status
MaxStatusItems == 3

\* most text widgets on a page of the template
MaxWidgets == 2

\* most characters in a text given to the fit helpers
MaxTextLen == 4

\* most characters in a string given to normalize_title on its own
MaxTitleLen == 4

\* most media references of a line item
MaxRefs == 3

\* most _save_bytes calls on one images directory
MaxSaves == 3

\* most showPage calls on one canvas
MaxPages == 3

\* most download calls on one cache directory
MaxCalls == 3

-----------------------------------------------------------------------------
(* Generic helpers *)

None == <<>>

SeqsUpTo(S, n) == UNION {[1..k -> S] : k \in 0..n}

\* s[a..b] with Python's clamping of slices (1-based, inclusive)
Slice(s, a, b) == IF a > b THEN <<>> ELSE SubSeq(s, a, b)

\* Python: needle in hay, for strings (the empty string is in every string)
IsSubstring(needle, hay) ==
    \E i \in 0..(Len(hay) - Len(needle)) :
        \A j \in 1..Len(needle) : hay[i + j] = needle[j]

-----------------------------------------------------------------------------
(* normalize_title *)

IsSpace(c) == c \in {" ", "\t"}

LowerChar(c) ==
    CASE c = "A" -> "a"
      [] c = "B" -> "b"
      [] c = "D" -> "d"
      [] c = "L" -> "l"
      [] c = "S" -> "s"
      [] c = "W" -> "w"
      [] OTHER -> c

\* str.lower()
Lower(s) == [i \in 1..Len(s) |-> LowerChar(s[i])]

RECURSIVE LStrip(_)
LStrip(s) == IF s # <<>> /\ IsSpace(Head(s)) THEN LStrip(Tail(s)) ELSE s

RECURSIVE RStrip(_)
RStrip(s) ==
    IF s # <<>> /\ IsSpace(s[Len(s)]) THEN RStrip(SubSeq(s, 1, Len(s) - 1)) ELSE s

\* str.strip()
Strip(s) == RStrip(LStrip(s))

\* re.sub(r"\s+", " ", s): every maximal run of whitespace becomes one space
RECURSIVE CollapseSpaces(_)
CollapseSpaces(s) ==
    IF s = <<>> THEN <<>>
    ELSE IF IsSpace(Head(s))
         THEN <<" ">> \o CollapseSpaces(LStrip(s))
         ELSE <<Head(s)>> \o CollapseSpaces(Tail(s))

\* normalize_title without the strip
NormalizeNoStrip(s) ==
    IF s = <<>> THEN <<>> ELSE CollapseSpaces(Lower(s))

normalize_title(s) ==
    IF s = <<>> THEN <<>> ELSE CollapseSpaces(Lower(Strip(s)))

-----------------------------------------------------------------------------
(* Insertion-ordered dictionaries: a sequence of [key, val] with distinct keys *)

DictHas(d, k) == \E i \in 1..Len(d) : d[i].key = k

DictGet(d, k) == d[CHOOSE i \in 1..Len(d) : d[i].key = k].val

\* d[k] = v : an existing key keeps its position, a new key goes last
DictSet(d, k, v) ==
    IF DictHas(d, k)
    THEN [i \in 1..Len(d) |-> IF d[i].key = k THEN [key |-> k, val |-> v] ELSE d[i]]
    ELSE Append(d, [key |-> k, val |-> v])

-----------------------------------------------------------------------------
(* build_title_lookup / resolve_item *)

MAJOR_NORMALIZE ==
    [m \in {"Structural Systems", "Electrical Systems",
            "Heating, Ventilation and Air Conditioning Systems",
            "Plumbing Systems", "Appliances", "Optional Systems"} |->
        CASE m = "Structural Systems" -> "I. STRUCTURAL SYSTEMS"
          [] m = "Electrical Systems" -> "II. ELECTRICAL SYSTEMS"
          [] m = "Heating, Ventilation and Air Conditioning Systems" ->
                 "III. HEATING, VENTILATION AND AIR CONDITIONING SYSTEMS"
          [] m = "Plumbing Systems" -> "IV. PLUMBING SYSTEMS"
          [] m = "Appliances" -> "V. APPLIANCES"
          [] m = "Optional Systems" -> "VI. OPTIONAL SYSTEMS"]

MAJOR_TO_BUCKET ==
    [m \in {"Structural Systems", "Electrical Systems",
            "Heating, Ventilation and Air Conditioning Systems",
            "Plumbing Systems", "Appliances", "Optional Systems"} |->
        CASE m = "Structural Systems" -> "STRUCTURAL"
          [] m = "Electrical Systems" -> "ELECTRICAL"
          [] m = "Heating, Ventilation and Air Conditioning Systems" -> "HVAC"
          [] m = "Plumbing Systems" -> "PLUMBING"
          [] m = "Appliances" -> "APPLIANCES"
          [] m = "Optional Systems" -> "OPTIONAL"]

\* the table of canonical majors the running program uses
MajorTable(v) == IF v = "util" THEN MAJOR_NORMALIZE ELSE MAJOR_TO_BUCKET

\* a lookup built without normalising the source titles
BuildFromRaw(m, i, table, out) ==
    LET RECURSIVE Go(_, _)
        Go(j, acc) ==
            IF j > Len(m) THEN acc
            ELSE IF m[j].major \notin DOMAIN table
                 THEN Go(j + 1, acc)
                 ELSE Go(j + 1, DictSet(acc, m[j].src,
                                        <<table[m[j].major], m[j].canonical>>))
    IN Go(i, out)

\* one pass of the two nested loops of build_title_lookup over entries i..Len(m)
RECURSIVE BuildFrom(_, _, _, _)
BuildFrom(m, i, table, out) ==
    IF i > Len(m) THEN out
    ELSE IF m[i].major \notin DOMAIN table
         THEN BuildFrom(m, i + 1, table, out)
         ELSE BuildFrom(m, i + 1, table,
                        DictSet(out, normalize_title(m[i].src),
                                <<table[m[i].major], m[i].canonical>>))

build_title_lookup(m, table) == BuildFrom(m, 1, table, <<>>)

\* a fuzzy pass that only accepts keys contained in the title
FuzzyOneWay(k, lk, i) ==
    LET RECURSIVE Go(_)
        Go(j) ==
            IF j > Len(lk) THEN None
            ELSE IF IsSubstring(lk[j].key, k) THEN lk[j].val ELSE Go(j + 1)
    IN Go(i)

\* the fuzzy pass: first entry, in the dict's order, related to k by containment
RECURSIVE FuzzyFrom(_, _, _)
FuzzyFrom(k, lk, i) ==
    IF i > Len(lk) THEN None
    ELSE IF IsSubstring(k, lk[i].key) \/ IsSubstring(lk[i].key, k)
         THEN lk[i].val
         ELSE FuzzyFrom(k, lk, i + 1)

\* resolve_item without the exact lookup
ResolveFuzzyOnly(t, lk) == FuzzyFrom(normalize_title(t), lk, 1)

resolve_item(t, lk) ==
    LET k == normalize_title(t)
    IN IF DictHas(lk, k) THEN DictGet(lk, k) ELSE FuzzyFrom(k, lk, 1)

-----------------------------------------------------------------------------
(* Inputs of the resolver runs *)

\* source titles of mapping tables: two that normalise to the same key "ab",
\* one contained in it, one with an inner run of whitespace
SrcTitles ==
    { <<"A", "b">>, <<"a", "b", " ">>, <<"b">>, <<"a", "\t", " ", "b">> }

\* titles asked of resolve_item
Titles ==
    SrcTitles \cup { <<>>, <<" ">>, <<"a">>, <<"b", "a">>, <<"a", " ", "b", "a">> }

\* two known major names and one that is none of the six
MappingMajors == {"Structural Systems", "Electrical Systems", "Roofing"}

Canonicals == {"Foundations", "Windows"}

MappingEntries == [major : MappingMajors, src : SrcTitles, canonical : Canonicals]

\* what iterating a dict of dicts can produce: a (major, src) pair occurs once
\* and the entries of one major are contiguous
ValidMapping(m) ==
    /\ \A i, j \in 1..Len(m) :
          (i # j) => ~(m[i].major = m[j].major /\ m[i].src = m[j].src)
    /\ \A i, j \in 1..Len(m) :
          (i < j /\ m[i].major = m[j].major) =>
              \A h \in i..j : m[h].major = m[i].major

MappingTables == {m \in SeqsUpTo(MappingEntries, MaxEntries) : ValidMapping(m)}

-----------------------------------------------------------------------------
(* Variables a run does not use keep their initial values *)

EmptyDict == [k \in {} |-> <<>>]

GroupIdle ==
    /\ data = <<>>
    /\ grouped = EmptyDict
    /\ fgrouped = EmptyDict
    /\ unmatched = <<>>

StatusIdle ==
    /\ items = <<>>
    /\ status = None
    /\ spc = "idle"

AllocIdle ==
    /\ page_widgets = EmptyDict
    /\ apc = "idle"
    /\ page_ix = 0
    /\ widgets = <<>>
    /\ ix = 0
    /\ fields = EmptyDict
    /\ payload_log = <<>>
    /\ narrative_overflow = EmptyDict
    /\ output = None

FitIdle ==
    /\ f_fn = "idle"
    /\ f_text = <<>>
    /\ f_max_w = 0
    /\ f_start = 0
    /\ f_min = 0
    /\ f_size = 0
    /\ fpc = "idle"

ElideIdle ==
    /\ e_text = <<>>
    /\ e_size = 0
    /\ e_max_w = 0
    /\ lo = 0
    /\ hi = 0
    /\ best = <<>>
    /\ e_result = None
    /\ epc = "idle"

NormIdle ==
    /\ n_x = <<>>
    /\ n_key = <<>>
    /\ npc = "idle"

EntryIdle ==
    /\ entry = "idle"
    /\ present = {}
    /\ xstep = 0
    /\ written = {}
    /\ outcome = "idle"

MediaIdle ==
    /\ m_refs = <<>>
    /\ m_ix = 0
    /\ m_out = <<>>
    /\ m_requests = <<>>
    /\ disk = EmptyDict
    /\ writes = <<>>
    /\ s_call = None
    /\ s_path = None
    /\ s_hist = <<>>
    /\ mpc = "idle"

PrependIdle ==
    /\ p_same = "none"
    /\ p_json = "ok"
    /\ p_inputs_ok = TRUE
    /\ p_out0 = "absent"
    /\ p_out = "absent"
    /\ p_tmp = "absent"
    /\ p_overlay = "absent"
    /\ p_touched = {}
    /\ p_exc = None
    /\ ppc = "idle"

CanvasIdle ==
    /\ c_class = "idle"
    /\ c_offset = 0
    /\ c_number = 0
    /\ c_code = <<>>
    /\ c_saved = <<>>
    /\ c_emitted = <<>>
    /\ c_calls = <<>>
    /\ c_ix = 0
    /\ cpc = "idle"

CacheIdle ==
    /\ d_class = "idle"
    /\ d_cache = [k \in {} |-> <<>>]
    /\ d_hist = <<>>
    /\ dpc = "idle"

FlowIdle ==
    /\ story = <<>>
    /\ w_major = 0
    /\ w_sub = 0
    /\ wpc = "idle"

BucketIdle ==
    /\ b_comment = <<>>
    /\ b_bucket = <<>>
    /\ bpc = "idle"

-----------------------------------------------------------------------------
(* Resolver runs: build the lookup, then resolve one title *)

RInit ==
    /\ BucketIdle
    /\ FlowIdle
    /\ CacheIdle
    /\ CanvasIdle
    /\ PrependIdle
    /\ MediaIdle
    /\ EntryIdle
    /\ NormIdle
    /\ FitIdle
    /\ ElideIdle
    /\ AllocIdle
    /\ GroupIdle
    /\ StatusIdle
    /\ variant \in {"util", "fill"}
    /\ mapping \in MappingTables
    /\ lookup = <<>>
    /\ title = <<>>
    /\ result = None
    /\ rpc = "start"

BuildTitleLookup ==
    /\ rpc = "start"
    /\ lookup' = build_title_lookup(mapping, MajorTable(variant))
    /\ rpc' = "built"
    /\ UNCHANGED <<bvars, wvars, dvars, cvars, pvars, mvars, xvars, nvars, variant, mapping, title, result, gvars, svars, avars, fvars, evars>>

ResolveItem ==
    /\ rpc = "built"
    /\ \E t \in Titles :
          /\ title' = t
          /\ result' = resolve_item(t, lookup)
    /\ rpc' = "resolved"
    /\ UNCHANGED <<bvars, wvars, dvars, cvars, pvars, mvars, xvars, nvars, variant, mapping, lookup, gvars, svars, avars, fvars, evars>>

RNext == BuildTitleLookup \/ ResolveItem

SpecResolver == RInit /\ [][RNext]_vars

-----------------------------------------------------------------------------
(* Grouping engine: group_items_detailed and group_by_subsection *)

STR_info   == <<"i", "n", "f", "o">>
STR_limit  == <<"l", "i", "m", "i", "t">>
STR_defect == <<"d", "e", "f", "e", "c", "t">>

\* title = li.get("title") or li.get("name") or ""   (absent and "" are both <<>>)
ItemTitle(li) == IF li.title # <<>> THEN li.title ELSE li.name

\* one comment's effect on the severity: last limit wins over a defect
SeverityStepLastWins(sev, c) ==
    LET t == Lower(c.type)
    IN IF t = STR_defect THEN STR_defect
       ELSE IF t = STR_limit THEN STR_limit
       ELSE sev

\* one comment's effect on the severity (the if/elif of the comment loop)
SeverityStep(sev, c) ==
    LET t == Lower(c.type)
    IN IF t = STR_defect THEN STR_defect
       ELSE IF t = STR_limit /\ sev # STR_defect THEN STR_limit
       ELSE sev

\* severity after the comment loop over cs[i..], starting from sev
RECURSIVE SeverityFrom(_, _, _)
SeverityFrom(cs, i, sev) ==
    IF i > Len(cs) THEN sev ELSE SeverityFrom(cs, i + 1, SeverityStep(sev, cs[i]))

\* texts: the stripped, non-empty comment values, in order
RECURSIVE TextsFrom(_, _)
TextsFrom(cs, i) ==
    IF i > Len(cs) THEN <<>>
    ELSE IF Strip(cs[i].value) # <<>>
         THEN <<Strip(cs[i].value)>> \o TextsFrom(cs, i + 1)
         ELSE TextsFrom(cs, i + 1)

\* sep.join(parts)
RECURSIVE Join(_, _)
Join(parts, sep) ==
    IF parts = <<>> THEN <<>>
    ELSE IF Len(parts) = 1 THEN parts[1]
    ELSE parts[1] \o sep \o Join(Tail(parts), sep)

\* " ".join(texts).strip()
BodyText(cs) == Strip(Join(TextsFrom(cs, 1), <<" ">>))

\* _collect_images(li): the line items of this model carry no media keys, so
\* every harvest() call receives None and the list stays empty
collect_images(li) == <<>>

DetailedItem(li) ==
    [label  |-> ItemTitle(li),
     text   |-> BodyText(li.comments),
     type   |-> SeverityFrom(li.comments, 1, STR_info),
     images |-> collect_images(li)]

Bullet(li) ==
    LET body == BodyText(li.comments)
    IN IF body # <<>>
       THEN <<"*", " ">> \o ItemTitle(li) \o <<":", " ">> \o body
       ELSE <<"*", " ">> \o ItemTitle(li)

\* d.setdefault(k, []) alone: the key is created, nothing is appended
SetDefaultOnly(d, k, x) ==
    [j \in DOMAIN d \cup {k} |-> IF j \in DOMAIN d THEN d[j] ELSE <<>>]

\* d.setdefault(k, []).append(x)
SetDefaultAppend(d, k, x) ==
    [j \in DOMAIN d \cup {k} |->
        IF j = k THEN Append(IF k \in DOMAIN d THEN d[k] ELSE <<>>, x) ELSE d[j]]

\* g.setdefault(major, {}).setdefault(canonical, []).insert(0, x)
SetDefault2Prepend(g, major, canonical, x) ==
    LET d == IF major \in DOMAIN g THEN g[major] ELSE EmptyDict
    IN [j \in DOMAIN g \cup {major} |->
           IF j = major
           THEN [c \in DOMAIN d \cup {canonical} |->
                    IF c = canonical
                    THEN <<x>> \o (IF canonical \in DOMAIN d THEN d[canonical] ELSE <<>>)
                    ELSE d[c]]
           ELSE g[j]]

\* g.setdefault(major, {}).setdefault(canonical, []).append(x)
SetDefault2Append(g, major, canonical, x) ==
    [j \in DOMAIN g \cup {major} |->
        IF j = major
        THEN SetDefaultAppend(IF major \in DOMAIN g THEN g[major] ELSE EmptyDict,
                              canonical, x)
        ELSE g[j]]

\* the mapping table of the grouping runs
GroupMapping ==
    << [major |-> "Structural Systems", src |-> <<"A", "b">>, canonical |-> "Foundations"],
       [major |-> "Electrical Systems", src |-> <<"d">>, canonical |-> "Windows"],
       [major |-> "Structural Systems", src |-> <<"a", "b", "d">>, canonical |-> "Windows"] >>

\* line items: exact key, fuzzy match, name used for a missing title,
\* unmapped title, no title at all
LineItemHeads ==
    { [title |-> <<"A", "b">>, name |-> <<>>],
      [title |-> <<"a">>,      name |-> <<>>],
      [title |-> <<>>,         name |-> <<"d">>],
      [title |-> <<"c">>,      name |-> <<"d">>],
      [title |-> <<>>,         name |-> <<>>] }

\* comments: value and type as read by c.get (absent is <<>>)
CommentPool ==
    { [value |-> <<"o", "k">>,     type |-> STR_info],
      [value |-> <<>>,             type |-> <<"L", "i", "m", "i", "t">>],
      [value |-> <<" ", "x", " ">>, type |-> STR_defect] }

RECURSIVE TotalComments(_)
TotalComments(d) ==
    IF d = <<>> THEN 0 ELSE Len(Head(d).comments) + TotalComments(Tail(d))

GInit ==
    /\ BucketIdle
    /\ FlowIdle
    /\ CacheIdle
    /\ CanvasIdle
    /\ PrependIdle
    /\ MediaIdle
    /\ EntryIdle
    /\ NormIdle
    /\ FitIdle
    /\ ElideIdle
    /\ AllocIdle
    /\ StatusIdle
    /\ variant \in {"util", "fill"}
    /\ mapping = GroupMapping
    /\ lookup = <<>>
    /\ title = <<>>
    /\ result = None
    /\ rpc = "start"
    /\ GroupIdle

\* one pass of the body of the "for li in section.lineItems" loop of
\* group_items_detailed
GroupItemsDetailedOf(heads) ==
    /\ variant = "util"
    /\ rpc = "built"
    /\ Len(data) < MaxItems
    /\ \E h \in heads :
       \E cs \in SeqsUpTo(CommentPool, MaxComments - TotalComments(data)) :
          LET li == [title |-> h.title, name |-> h.name, comments |-> cs]
              r  == resolve_item(ItemTitle(li), lookup)
          IN /\ data' = Append(data, li)
             /\ grouped' =
                   IF ItemTitle(li) = <<>> \/ r = None
                   THEN grouped
                   ELSE SetDefault2Append(grouped, r[1], r[2], DetailedItem(li))
    /\ UNCHANGED <<bvars, wvars, dvars, cvars, pvars, mvars, xvars, nvars, rvars, fgrouped, unmatched, svars, avars, fvars, evars>>

\* one pass of the body of the "for li in s.lineItems" loop of group_by_subsection
GroupBySubsectionOf(heads) ==
    /\ variant = "fill"
    /\ rpc = "built"
    /\ Len(data) < MaxItems
    /\ \E h \in heads :
       \E cs \in SeqsUpTo(CommentPool, MaxComments - TotalComments(data)) :
          LET li == [title |-> h.title, name |-> h.name, comments |-> cs]
              r  == resolve_item(ItemTitle(li), lookup)
          IN /\ data' = Append(data, li)
             /\ unmatched' =
                   IF ItemTitle(li) # <<>> /\ r = None
                   THEN Append(unmatched, ItemTitle(li))
                   ELSE unmatched
             /\ fgrouped' =
                   IF ItemTitle(li) = <<>> \/ r = None
                   THEN fgrouped
                   ELSE SetDefaultAppend(fgrouped, r[2], Bullet(li))
    /\ UNCHANGED <<bvars, wvars, dvars, cvars, pvars, mvars, xvars, nvars, rvars, grouped, svars, avars, fvars, evars>>

GroupItemsDetailed == GroupItemsDetailedOf(LineItemHeads)

GroupBySubsection == GroupBySubsectionOf(LineItemHeads)

GNext == BuildTitleLookup \/ GroupItemsDetailed \/ GroupBySubsection

SpecGroup == GInit /\ [][GNext]_vars

\* line items whose title is whitespace only (one of them with a name), one
\* without a title, one whose title is no key of either table and contains
\* none, and one that is a key
BlankHeads ==
    { [title |-> <<" ">>,       name |-> <<>>],
      [title |-> <<"\t", " ">>, name |-> <<"A", "b">>],
      [title |-> <<>>,          name |-> <<>>],
      [title |-> <<"c">>,       name |-> <<>>],
      [title |-> <<"A", "b">>,  name |-> <<>>] }

\* a mapping table with a source title of whitespace only
BlankMapping ==
    << [major |-> "Structural Systems", src |-> <<"A", "b">>, canonical |-> "Foundations"],
       [major |-> "Electrical Systems", src |-> <<" ">>,
        canonical |-> "Service Entrance and Panels"] >>

GBInit ==
    /\ BucketIdle
    /\ FlowIdle
    /\ CacheIdle
    /\ CanvasIdle
    /\ PrependIdle
    /\ MediaIdle
    /\ EntryIdle
    /\ NormIdle
    /\ FitIdle
    /\ ElideIdle
    /\ AllocIdle
    /\ StatusIdle
    /\ variant \in {"util", "fill"}
    /\ mapping \in {GroupMapping, BlankMapping}
    /\ lookup = <<>>
    /\ title = <<>>
    /\ result = None
    /\ rpc = "start"
    /\ GroupIdle

GroupBlankDetailed == GroupItemsDetailedOf(BlankHeads)

GroupBlankBySubsection == GroupBySubsectionOf(BlankHeads)

GBNext == BuildTitleLookup \/ GroupBlankDetailed \/ GroupBlankBySubsection

\* the grouping walks over line items and tables with blank titles
SpecGroupBlank == GBInit /\ [][GBNext]_vars

-----------------------------------------------------------------------------
(* Status aggregator: compute_subsection_status *)

\* it.get("type") or ""  ==  "defect", for some item
HasDefect(its) == \E i \in 1..Len(its) : its[i].type = STR_defect

\* a status that reports a defect only when the last item is a defect
StatusOfLast(its) ==
    IF its = <<>>
    THEN [I |-> FALSE, NI |-> FALSE, NP |-> TRUE, D |-> FALSE]
    ELSE [I |-> TRUE, NI |-> FALSE, NP |-> FALSE, D |-> its[Len(its)].type = STR_defect]

compute_subsection_status(its) ==
    IF its = <<>>
    THEN [I |-> FALSE, NI |-> FALSE, NP |-> TRUE, D |-> FALSE]
    ELSE [I |-> TRUE, NI |-> FALSE, NP |-> FALSE, D |-> HasDefect(its)]

\* grouped items as group_items_detailed builds them, and one without a type
StatusItems ==
    { [label |-> <<"a">>, text |-> <<>>, type |-> STR_info,   images |-> <<>>],
      [label |-> <<"a">>, text |-> <<>>, type |-> STR_limit,  images |-> <<>>],
      [label |-> <<"a">>, text |-> <<>>, type |-> STR_defect, images |-> <<>>],
      [label |-> <<"a">>, text |-> <<>>, type |-> <<>>,       images |-> <<>>] }

SInit ==
    /\ BucketIdle
    /\ FlowIdle
    /\ CacheIdle
    /\ CanvasIdle
    /\ PrependIdle
    /\ MediaIdle
    /\ EntryIdle
    /\ NormIdle
    /\ FitIdle
    /\ ElideIdle
    /\ AllocIdle
    /\ GroupIdle
    /\ variant = "util"
    /\ mapping = <<>>
    /\ lookup = <<>>
    /\ title = <<>>
    /\ result = None
    /\ rpc = "idle"
    /\ items \in SeqsUpTo(StatusItems, MaxStatusItems)
    /\ status = None
    /\ spc = "start"

ComputeSubsectionStatus ==
    /\ spc = "start"
    /\ status' = compute_subsection_status(items)
    /\ spc' = "done"
    /\ UNCHANGED <<bvars, wvars, dvars, cvars, pvars, mvars, xvars, nvars, rvars, gvars, items, avars, fvars, evars>>

SNext == ComputeSubsectionStatus

SpecStatus == SInit /\ [][SNext]_vars

-----------------------------------------------------------------------------
(* Layout allocator: the allocation loop of fill_pdf_form.main *)

PAGE_SUBSECTIONS ==
    [p \in {3, 4, 5, 6} |->
        CASE p = 3 ->
             <<
               "Foundations", "Grading and Drainage",
               "Roof Covering Materials", "Roof Structures and Attics",
               "Walls (Interior and Exterior)", "Ceilings and Floors",
               "Doors (Interior and Exterior)", "Windows",
               "Stairways (Interior and Exterior)",
               "Fireplaces and Chimneys",
               "Porches, Balconies, Decks, and Carports", "Other" >>
          [] p = 4 ->
             <<
               "Service Entrance and Panels",
               "Branch Circuits, Connected Devices, and Fixtures",
               "Other (Electrical)", "Heating Equipment",
               "Cooling Equipment", "Duct Systems, Chases, and Vents",
               "Other (HVAC)",
               "Plumbing Supply, Distribution Systems and Fixtures",
               "Drains, Wastes, and Vents", "Water Heating Equipment" >>
          [] p = 5 ->
             <<
               "Hydro-Massage Therapy Equipment",
               "Gas Distribution Systems and Gas Appliances",
               "Other (Plumbing)", "Dishwashers", "Food Waste Disposers",
               "Range Hood and Exhaust Systems",
               "Ranges, Cooktops, and Ovens", "Microwave Ovens",
               "Mechanical Exhaust Vents and Bathroom Heaters",
               "Garage Door Operators", "Dryer Exhaust Systems",
               "Other (Appliances)" >>
          [] p = 6 ->
             <<
               "Landscape Irrigation (Sprinkler) Systems",
               "Swimming Pools, Spas, Hot Tubs, and Equipment",
               "Outbuildings", "Private Water Wells",
               "Private Sewage Disposal Systems",
               "Other Built-in Appliances", "Other (Optional)" >>]

\* the characters of a subsection name
SubsectionChars(sub) ==
    CASE sub = "Foundations" ->
         << "F", "o", "u", "n", "d", "a", "t", "i", "o", "n", "s" >>
      [] sub = "Grading and Drainage" ->
         << "G", "r", "a", "d", "i", "n", "g", " ", "a", "n", "d", " ", "D",
            "r", "a", "i", "n", "a", "g", "e" >>
      [] sub = "Roof Covering Materials" ->
         << "R", "o", "o", "f", " ", "C", "o", "v", "e", "r", "i", "n", "g",
            " ", "M", "a", "t", "e", "r", "i", "a", "l", "s" >>
      [] sub = "Roof Structures and Attics" ->
         << "R", "o", "o", "f", " ", "S", "t", "r", "u", "c", "t", "u", "r",
            "e", "s", " ", "a", "n", "d", " ", "A", "t", "t", "i", "c", "s" >>
      [] sub = "Walls (Interior and Exterior)" ->
         << "W", "a", "l", "l", "s", " ", "(", "I", "n", "t", "e", "r", "i",
            "o", "r", " ", "a", "n", "d", " ", "E", "x", "t", "e", "r", "i",
            "o", "r", ")" >>
      [] sub = "Ceilings and Floors" ->
         << "C", "e", "i", "l", "i", "n", "g", "s", " ", "a", "n", "d", " ",
            "F", "l", "o", "o", "r", "s" >>
      [] sub = "Doors (Interior and Exterior)" ->
         << "D", "o", "o", "r", "s", " ", "(", "I", "n", "t", "e", "r", "i",
            "o", "r", " ", "a", "n", "d", " ", "E", "x", "t", "e", "r", "i",
            "o", "r", ")" >>
      [] sub = "Windows" ->
         << "W", "i", "n", "d", "o", "w", "s" >>
      [] sub = "Stairways (Interior and Exterior)" ->
         << "S", "t", "a", "i", "r", "w", "a", "y", "s", " ", "(", "I", "n",
            "t", "e", "r", "i", "o", "r", " ", "a", "n", "d", " ", "E", "x",
            "t", "e", "r", "i", "o", "r", ")" >>
      [] sub = "Fireplaces and Chimneys" ->
         << "F", "i", "r", "e", "p", "l", "a", "c", "e", "s", " ", "a", "n",
            "d", " ", "C", "h", "i", "m", "n", "e", "y", "s" >>
      [] sub = "Porches, Balconies, Decks, and Carports" ->
         << "P", "o", "r", "c", "h", "e", "s", ",", " ", "B", "a", "l", "c",
            "o", "n", "i", "e", "s", ",", " ", "D", "e", "c", "k", "s", ",",
            " ", "a", "n", "d", " ", "C", "a", "r", "p", "o", "r", "t", "s" >>
      [] sub = "Other" ->
         << "O", "t", "h", "e", "r" >>
      [] sub = "Service Entrance and Panels" ->
         << "S", "e", "r", "v", "i", "c", "e", " ", "E", "n", "t", "r", "a",
            "n", "c", "e", " ", "a", "n", "d", " ", "P", "a", "n", "e", "l",
            "s" >>
      [] sub = "Branch Circuits, Connected Devices, and Fixtures" ->
         << "B", "r", "a", "n", "c", "h", " ", "C", "i", "r", "c", "u", "i",
            "t", "s", ",", " ", "C", "o", "n", "n", "e", "c", "t", "e", "d",
            " ", "D", "e", "v", "i", "c", "e", "s", ",", " ", "a", "n", "d",
            " ", "F", "i", "x", "t", "u", "r", "e", "s" >>
      [] sub = "Other (Electrical)" ->
         << "O", "t", "h", "e", "r", " ", "(", "E", "l", "e", "c", "t", "r",
            "i", "c", "a", "l", ")" >>
      [] sub = "Heating Equipment" ->
         << "H", "e", "a", "t", "i", "n", "g", " ", "E", "q", "u", "i", "p",
            "m", "e", "n", "t" >>
      [] sub = "Cooling Equipment" ->
         << "C", "o", "o", "l", "i", "n", "g", " ", "E", "q", "u", "i", "p",
            "m", "e", "n", "t" >>
      [] sub = "Duct Systems, Chases, and Vents" ->
         << "D", "u", "c", "t", " ", "S", "y", "s", "t", "e", "m", "s", ",",
            " ", "C", "h", "a", "s", "e", "s", ",", " ", "a", "n", "d", " ",
            "V", "e", "n", "t", "s" >>
      [] sub = "Other (HVAC)" ->
         << "O", "t", "h", "e", "r", " ", "(", "H", "V", "A", "C", ")" >>
      [] sub = "Plumbing Supply, Distribution Systems and Fixtures" ->
         << "P", "l", "u", "m", "b", "i", "n", "g", " ", "S", "u", "p", "p",
            "l", "y", ",", " ", "D", "i", "s", "t", "r", "i", "b", "u", "t",
            "i", "o", "n", " ", "S", "y", "s", "t", "e", "m", "s", " ", "a",
            "n", "d", " ", "F", "i", "x", "t", "u", "r", "e", "s" >>
      [] sub = "Drains, Wastes, and Vents" ->
         << "D", "r", "a", "i", "n", "s", ",", " ", "W", "a", "s", "t", "e",
            "s", ",", " ", "a", "n", "d", " ", "V", "e", "n", "t", "s" >>
      [] sub = "Water Heating Equipment" ->
         << "W", "a", "t", "e", "r", " ", "H", "e", "a", "t", "i", "n", "g",
            " ", "E", "q", "u", "i", "p", "m", "e", "n", "t" >>
      [] sub = "Hydro-Massage Therapy Equipment" ->
         << "H", "y", "d", "r", "o", "-", "M", "a", "s", "s", "a", "g", "e",
            " ", "T", "h", "e", "r", "a", "p", "y", " ", "E", "q", "u", "i",
            "p", "m", "e", "n", "t" >>
      [] sub = "Gas Distribution Systems and Gas Appliances" ->
         << "G", "a", "s", " ", "D", "i", "s", "t", "r", "i", "b", "u", "t",
            "i", "o", "n", " ", "S", "y", "s", "t", "e", "m", "s", " ", "a",
            "n", "d", " ", "G", "a", "s", " ", "A", "p", "p", "l", "i", "a",
            "n", "c", "e", "s" >>
      [] sub = "Other (Plumbing)" ->
         << "O", "t", "h", "e", "r", " ", "(", "P", "l", "u", "m", "b", "i",
            "n", "g", ")" >>
      [] sub = "Dishwashers" ->
         << "D", "i", "s", "h", "w", "a", "s", "h", "e", "r", "s" >>
      [] sub = "Food Waste Disposers" ->
         << "F", "o", "o", "d", " ", "W", "a", "s", "t", "e", " ", "D", "i",
            "s", "p", "o", "s", "e", "r", "s" >>
      [] sub = "Range Hood and Exhaust Systems" ->
         << "R", "a", "n", "g", "e", " ", "H", "o", "o", "d", " ", "a", "n",
            "d", " ", "E", "x", "h", "a", "u", "s", "t", " ", "S", "y", "s",
            "t", "e", "m", "s" >>
      [] sub = "Ranges, Cooktops, and Ovens" ->
         << "R", "a", "n", "g", "e", "s", ",", " ", "C", "o", "o", "k", "t",
            "o", "p", "s", ",", " ", "a", "n", "d", " ", "O", "v", "e", "n",
            "s" >>
      [] sub = "Microwave Ovens" ->
         << "M", "i", "c", "r", "o", "w", "a", "v", "e", " ", "O", "v", "e",
            "n", "s" >>
      [] sub = "Mechanical Exhaust Vents and Bathroom Heaters" ->
         << "M", "e", "c", "h", "a", "n", "i", "c", "a", "l", " ", "E", "x",
            "h", "a", "u", "s", "t", " ", "V", "e", "n", "t", "s", " ", "a",
            "n", "d", " ", "B", "a", "t", "h", "r", "o", "o", "m", " ", "H",
            "e", "a", "t", "e", "r", "s" >>
      [] sub = "Garage Door Operators" ->
         << "G", "a", "r", "a", "g", "e", " ", "D", "o", "o", "r", " ", "O",
            "p", "e", "r", "a", "t", "o", "r", "s" >>
      [] sub = "Dryer Exhaust Systems" ->
         << "D", "r", "y", "e", "r", " ", "E", "x", "h", "a", "u", "s", "t",
            " ", "S", "y", "s", "t", "e", "m", "s" >>
      [] sub = "Other (Appliances)" ->
         << "O", "t", "h", "e", "r", " ", "(", "A", "p", "p", "l", "i", "a",
            "n", "c", "e", "s", ")" >>
      [] sub = "Landscape Irrigation (Sprinkler) Systems" ->
         << "L", "a", "n", "d", "s", "c", "a", "p", "e", " ", "I", "r", "r",
            "i", "g", "a", "t", "i", "o", "n", " ", "(", "S", "p", "r", "i",
            "n", "k", "l", "e", "r", ")", " ", "S", "y", "s", "t", "e", "m",
            "s" >>
      [] sub = "Swimming Pools, Spas, Hot Tubs, and Equipment" ->
         << "S", "w", "i", "m", "m", "i", "n", "g", " ", "P", "o", "o", "l",
            "s", ",", " ", "S", "p", "a", "s", ",", " ", "H", "o", "t", " ",
            "T", "u", "b", "s", ",", " ", "a", "n", "d", " ", "E", "q", "u",
            "i", "p", "m", "e", "n", "t" >>
      [] sub = "Outbuildings" ->
         << "O", "u", "t", "b", "u", "i", "l", "d", "i", "n", "g", "s" >>
      [] sub = "Private Water Wells" ->
         << "P", "r", "i", "v", "a", "t", "e", " ", "W", "a", "t", "e", "r",
            " ", "W", "e", "l", "l", "s" >>
      [] sub = "Private Sewage Disposal Systems" ->
         << "P", "r", "i", "v", "a", "t", "e", " ", "S", "e", "w", "a", "g",
            "e", " ", "D", "i", "s", "p", "o", "s", "a", "l", " ", "S", "y",
            "s", "t", "e", "m", "s" >>
      [] sub = "Other Built-in Appliances" ->
         << "O", "t", "h", "e", "r", " ", "B", "u", "i", "l", "t", "-", "i",
            "n", " ", "A", "p", "p", "l", "i", "a", "n", "c", "e", "s" >>
      [] sub = "Other (Optional)" ->
         << "O", "t", "h", "e", "r", " ", "(", "O", "p", "t", "i", "o", "n",
            "a", "l", ")" >>
      [] sub = "Private Sewage Systems" ->
         << "P", "r", "i", "v", "a", "t", "e", " ", "S", "e", "w", "a", "g",
            "e", " ", "S", "y", "s", "t", "e", "m", "s" >>

CONTINUED ==
    << " ", "_", " ", "(", "c", "o", "n", "t", "i", "n", "u", "e", "d", " ",
       "i", "n", " ", "N", "a", "r", "r", "a", "t", "i", "v", "e", ")" >>

PageOrder == <<3, 4, 5, 6>>

\* the font size main passes to estimate_visible_chars, in points
FONT_PT == 8

Max(a, b) == IF a >= b THEN a ELSE b
Min(a, b) == IF a <= b THEN a ELSE b

\* int(area_pts * 0.45 / max(font_pt/8.0, 0.5)), for whole areas and font sizes
estimate_visible_chars(area_pts, font_pt) ==
    (area_pts * 45 * 8) \div (100 * Max(font_pt, 4))

\* the whole capacities c below 330 for which the double product c * 0.7 lies
\* just under the integer 7c/10 (0.7 is not a double: 90 * 0.7 is 62.99999999999999)
FLOAT_SHORT_07 == {90, 170, 180}

\* a margin taken in exact arithmetic
ExactMargin(c) == (7 * c) \div 10

\* int(cap * 0.7) in double arithmetic, for 0 <= c < 330
SafetyMargin(c) ==
    IF c \in FLOAT_SHORT_07 THEN (7 * c) \div 10 - 1 ELSE (7 * c) \div 10

\* text = subsection + ":\n" + "\n".join(items)
BlockText(sub, its) == SubsectionChars(sub) \o <<":", "\n">> \o Join(its, <<"\n">>)

\* the value that keeps the first cap + 1 characters
ToFieldOffByOne(text, cap) ==
    IF Len(text) <= cap THEN text ELSE Slice(text, 1, cap + 1) \o CONTINUED

\* to_field = text if len(text) <= cap else (text[:cap] + CONTINUED)
ToField(text, cap) ==
    IF Len(text) <= cap THEN text ELSE Slice(text, 1, cap) \o CONTINUED

\* grouped.get(subsection, [])
ItemsOf(g, sub) == IF sub \in DOMAIN g THEN g[sub] ELSE <<>>

\* d.setdefault(k, []).extend(xs)
SetDefaultExtend(d, k, xs) ==
    [j \in DOMAIN d \cup {k} |->
        IF j = k THEN (IF k \in DOMAIN d THEN d[k] ELSE <<>>) \o xs ELSE d[j]]

\* the order of a sort without the negations: key (y, area)
KeyLessAscending(w, v) == w.y < v.y \/ (w.y = v.y /\ w.area < v.area)

\* w goes before v under key (-y, -area)
KeyLess(w, v) == w.y > v.y \/ (w.y = v.y /\ w.area > v.area)

\* list.sort is stable: w is inserted after the elements it does not precede
RECURSIVE InsertSorted(_, _)
InsertSorted(sorted, w) ==
    IF sorted = <<>> THEN <<w>>
    ELSE IF KeyLess(w, Head(sorted))
         THEN <<w>> \o sorted
         ELSE <<Head(sorted)>> \o InsertSorted(Tail(sorted), w)

RECURSIVE SortWidgets(_)
SortWidgets(ws) ==
    IF ws = <<>> THEN <<>>
    ELSE InsertSorted(SortWidgets(SubSeq(ws, 1, Len(ws) - 1)), ws[Len(ws)])

\* [w for w in widgets if w["multiline"]]
RECURSIVE Multiline(_)
Multiline(ws) ==
    IF ws = <<>> THEN <<>>
    ELSE IF Head(ws).multiline THEN <<Head(ws)>> \o Multiline(Tail(ws))
    ELSE Multiline(Tail(ws))

\* bullet lines as group_by_subsection builds them: "* Ab" and "* Ab: <body>"
DigitChars == <<"0", "1", "2", "3", "4", "5", "6", "7", "8", "9">>

BulletOfLen(len) ==
    IF len <= 6 THEN <<"*", " ", "A", "b">>
    ELSE <<"*", " ", "A", "b", ":", " ">> \o [k \in 1..(len - 6) |-> DigitChars[(k % 10) + 1]]

\* item lists for "Foundations" (name and ":\n" take 13 characters): blocks of
\* 17, 62, 63, 70, 71 and 200 characters, and a two-item block of 62
FoundationsLists ==
    { <<>>, <<BulletOfLen(4)>>, <<BulletOfLen(49)>>, <<BulletOfLen(50)>>,
      <<BulletOfLen(57)>>, <<BulletOfLen(58)>>, <<BulletOfLen(187)>>,
      <<BulletOfLen(20), BulletOfLen(28)>> }

OtherLists == { <<>>, <<BulletOfLen(4)>> }

\* what group_by_subsection can return: no key holds an empty list
ContentPool ==
    { LET c == [sub \in {"Foundations", "Grading and Drainage",
                         "Service Entrance and Panels", "Private Sewage Systems"} |->
                   CASE sub = "Foundations" -> f
                     [] sub = "Grading and Drainage" -> g
                     [] sub = "Service Entrance and Panels" -> e
                     [] sub = "Private Sewage Systems" -> x]
      IN [sub \in {k \in DOMAIN c : c[k] # <<>>} |-> c[sub]] :
        f \in FoundationsLists, g \in OtherLists \cup {<<BulletOfLen(50)>>},
        e \in OtherLists, x \in OtherLists }

\* field names of the widgets of a page, by position in /Annots
FieldNames == <<"w1", "w2", "w3", "w4">>

\* (multiline, area, y) of widgets: capacities 90, 100, 100, 9 and 0, and a
\* single-line field
WidgetShapes ==
    { [multiline |-> TRUE,  area |-> 200, y |-> 700],
      [multiline |-> TRUE,  area |-> 223, y |-> 700],
      [multiline |-> TRUE,  area |-> 223, y |-> 600],
      [multiline |-> TRUE,  area |-> 20,  y |-> 600],
      [multiline |-> TRUE,  area |-> 0,   y |-> 700],
      [multiline |-> FALSE, area |-> 223, y |-> 700] }

\* the widget lists page_text_widgets can return for a page
WidgetLists ==
    { [k \in 1..Len(sh) |->
          [name |-> FieldNames[k], multiline |-> sh[k].multiline,
           area |-> sh[k].area, y |-> sh[k].y]] :
        sh \in SeqsUpTo(WidgetShapes, MaxWidgets) }

AInit ==
    /\ BucketIdle
    /\ FlowIdle
    /\ CacheIdle
    /\ CanvasIdle
    /\ PrependIdle
    /\ MediaIdle
    /\ EntryIdle
    /\ NormIdle
    /\ FitIdle
    /\ ElideIdle
    /\ StatusIdle
    /\ variant = "fill"
    /\ mapping = <<>>
    /\ lookup = <<>>
    /\ title = <<>>
    /\ result = None
    /\ rpc = "idle"
    /\ data = <<>>
    /\ grouped = EmptyDict
    /\ fgrouped \in ContentPool
    /\ unmatched = <<>>
    /\ \E w3 \in WidgetLists :
       \E w4 \in {ws \in WidgetLists : Len(ws) <= 1 /\ \A k \in 1..Len(ws) : ws[k].area = 20} :
          page_widgets = [p \in {3, 4, 5, 6} |->
                             IF p = 3 THEN w3 ELSE IF p = 4 THEN w4 ELSE <<>>]
    /\ apc = "page"
    /\ page_ix = 1
    /\ widgets = <<>>
    /\ ix = 0
    /\ fields = EmptyDict
    /\ payload_log = <<>>
    /\ narrative_overflow = EmptyDict
    /\ output = None

PageNo == PageOrder[page_ix]

\* n = min(len(subsections), len(widgets))
PairCount == Min(Len(PAGE_SUBSECTIONS[PageNo]), Len(widgets))

\* for page_no, subsections in PAGE_SUBSECTIONS.items(): filter and sort the widgets
BeginPage ==
    /\ apc = "page"
    /\ page_ix <= Len(PageOrder)
    /\ widgets' = SortWidgets(Multiline(page_widgets[PageNo]))
    /\ ix' = 0
    /\ apc' = "pair"
    /\ UNCHANGED <<bvars, wvars, dvars, cvars, pvars, mvars, xvars, nvars, fvars, evars, rvars, gvars, svars, page_widgets, page_ix, fields, payload_log,
                   narrative_overflow, output>>

\* the loop body that blanks the region of a subsection without items
PairNoItemsBlanks ==
    /\ apc = "pair"
    /\ ix < PairCount
    /\ LET sub == PAGE_SUBSECTIONS[PageNo][ix + 1]
       IN /\ ItemsOf(fgrouped, sub) = <<>>
          /\ payload_log' = Append(payload_log,
                [page |-> PageNo, subsection |-> sub, kind |-> "no mapped items",
                 name |-> "", chars |-> 0, cap |-> 0, wrote |-> 0])
    /\ fields' = [k \in DOMAIN fields \cup {<<PageNo, widgets[ix + 1].name>>} |->
                     IF k = <<PageNo, widgets[ix + 1].name>> THEN <<>> ELSE fields[k]]
    /\ ix' = ix + 1
    /\ UNCHANGED <<bvars, wvars, dvars, cvars, pvars, mvars, xvars, nvars, fvars, evars, rvars, gvars, svars, page_widgets, apc, page_ix, widgets,
                   narrative_overflow, output>>

\* loop body, "if not items: ... continue"
PairNoItems ==
    /\ apc = "pair"
    /\ ix < PairCount
    /\ LET sub == PAGE_SUBSECTIONS[PageNo][ix + 1]
       IN /\ ItemsOf(fgrouped, sub) = <<>>
          /\ payload_log' = Append(payload_log,
                [page |-> PageNo, subsection |-> sub, kind |-> "no mapped items",
                 name |-> "", chars |-> 0, cap |-> 0, wrote |-> 0])
    /\ ix' = ix + 1
    /\ UNCHANGED <<bvars, wvars, dvars, cvars, pvars, mvars, xvars, nvars, fvars, evars, rvars, gvars, svars, page_widgets, apc, page_ix, widgets, fields,
                   narrative_overflow, output>>

\* the loop body with a rejected write that leaves its value in the field
PairWriteKeepsValue ==
    /\ apc = "pair"
    /\ ix < PairCount
    /\ LET sub  == PAGE_SUBSECTIONS[PageNo][ix + 1]
           its  == ItemsOf(fgrouped, sub)
           w    == widgets[ix + 1]
           text == BlockText(sub, its)
           cap  == SafetyMargin(estimate_visible_chars(w.area, FONT_PT))
           to_field == ToField(text, cap)
       IN /\ its # <<>>
          /\ \E ok \in BOOLEAN :
                /\ fields' =
                      IF TRUE
                      THEN [k \in DOMAIN fields \cup {<<PageNo, w.name>>} |->
                               IF k = <<PageNo, w.name>> THEN to_field ELSE fields[k]]
                      ELSE fields
                /\ payload_log' = Append(payload_log,
                      [page |-> PageNo, subsection |-> sub,
                       kind |-> IF ok THEN "wrote" ELSE "FAILED",
                       name |-> w.name, chars |-> Len(text), cap |-> cap,
                       wrote |-> IF ok THEN Len(to_field) ELSE 0])
          /\ narrative_overflow' =
                IF Len(text) > cap
                THEN SetDefaultExtend(narrative_overflow, sub, its)
                ELSE narrative_overflow
    /\ ix' = ix + 1
    /\ UNCHANGED <<bvars, wvars, dvars, cvars, pvars, mvars, xvars, nvars, fvars, evars, rvars, gvars, svars, page_widgets, apc, page_ix, widgets, output>>

\* loop body for a subsection with items; the field write succeeds or raises
PairWrite ==
    /\ apc = "pair"
    /\ ix < PairCount
    /\ LET sub  == PAGE_SUBSECTIONS[PageNo][ix + 1]
           its  == ItemsOf(fgrouped, sub)
           w    == widgets[ix + 1]
           text == BlockText(sub, its)
           cap  == SafetyMargin(estimate_visible_chars(w.area, FONT_PT))
           to_field == ToField(text, cap)
       IN /\ its # <<>>
          /\ \E ok \in BOOLEAN :
                /\ fields' =
                      IF ok
                      THEN [k \in DOMAIN fields \cup {<<PageNo, w.name>>} |->
                               IF k = <<PageNo, w.name>> THEN to_field ELSE fields[k]]
                      ELSE fields
                /\ payload_log' = Append(payload_log,
                      [page |-> PageNo, subsection |-> sub,
                       kind |-> IF ok THEN "wrote" ELSE "FAILED",
                       name |-> w.name, chars |-> Len(text), cap |-> cap,
                       wrote |-> IF ok THEN Len(to_field) ELSE 0])
          /\ narrative_overflow' =
                IF Len(text) > cap
                THEN SetDefaultExtend(narrative_overflow, sub, its)
                ELSE narrative_overflow
    /\ ix' = ix + 1
    /\ UNCHANGED <<bvars, wvars, dvars, cvars, pvars, mvars, xvars, nvars, fvars, evars, rvars, gvars, svars, page_widgets, apc, page_ix, widgets, output>>

\* range(n) is exhausted: on to the next page
EndPage ==
    /\ apc = "pair"
    /\ ix >= PairCount
    /\ page_ix' = page_ix + 1
    /\ apc' = "page"
    /\ UNCHANGED <<bvars, wvars, dvars, cvars, pvars, mvars, xvars, nvars, fvars, evars, rvars, gvars, svars, page_widgets, widgets, ix, fields, payload_log,
                   narrative_overflow, output>>

\* after the loop: narrative pages for the overflow, then OUTPUT and PAYLOADS
\* (the alphabetical order of the narrative headings is not represented)
WriteOutput ==
    /\ apc = "page"
    /\ page_ix > Len(PageOrder)
    /\ output' = [fields |-> fields, narrative |-> narrative_overflow]
    /\ apc' = "done"
    /\ UNCHANGED <<bvars, wvars, dvars, cvars, pvars, mvars, xvars, nvars, fvars, evars, rvars, gvars, svars, page_widgets, page_ix, widgets, ix, fields,
                   payload_log, narrative_overflow>>

ANext == BeginPage \/ PairNoItems \/ PairWrite \/ EndPage \/ WriteOutput

SpecAlloc == AInit /\ [][ANext]_vars

\* the runs of main over a part of the content pool: short and long blocks
ALiveInit ==
    /\ BucketIdle
    /\ FlowIdle
    /\ CacheIdle
    /\ CanvasIdle
    /\ PrependIdle
    /\ MediaIdle
    /\ AInit
    /\ "Private Sewage Systems" \notin DOMAIN fgrouped
    /\ \A sub \in DOMAIN fgrouped :
          fgrouped[sub] \in {<<BulletOfLen(4)>>, <<BulletOfLen(187)>>}

\* main is straight-line code: it runs on to its last statement
SpecAllocLive == ALiveInit /\ [][ANext]_vars /\ WF_vars(ANext)

-----------------------------------------------------------------------------
(* Text fit: fit_font_size, fit_draw / _fit_draw and elide_to_width.       *)
(* Font sizes are counted in quarter points, so that the 0.5 pt step of    *)
(* fit_draw is 2 and an integer size sz is 4 * sz; widths are counted in   *)
(* 1/4000 pt, so that a glyph of w/1000 em at size s is w * s wide.        *)

\* advance width of a Helvetica glyph, in 1/1000 em
GlyphWidth(c) ==
    CASE c = "i" -> 222
      [] c = "W" -> 944
      [] c = "." -> 278

RECURSIVE TextUnits(_)
TextUnits(text) ==
    IF text = <<>> THEN 0 ELSE GlyphWidth(Head(text)) + TextUnits(Tail(text))

\* pdfmetrics.stringWidth(text, "Helvetica", size)
stringWidth(text, size) == TextUnits(text) * size

\* for sz in range(max_size, min_size - 1, -1): ... return sz / return min_size
RECURSIVE FitFrom(_, _, _, _)
FitFrom(text, sz, max_width, min_size) ==
    IF sz < min_size THEN min_size
    ELSE IF stringWidth(text, sz) <= max_width THEN sz
    ELSE FitFrom(text, sz - 4, max_width, min_size)

fit_font_size(text, max_size, max_width, min_size) ==
    FitFrom(text, max_size, max_width, min_size)

\* size = start; while stringWidth(t, font, size) > max_w and size > min_size:
\*     size -= 0.5
\* the value is the size given to setFont
RECURSIVE fit_draw(_, _, _, _)
fit_draw(t, max_w, size, min_size) ==
    IF stringWidth(t, size) > max_w /\ size > min_size
    THEN fit_draw(t, max_w, size - 2, min_size)
    ELSE size

ELL == <<".", ".", ".">>

\* the candidate measured without the ellipsis
CandidateBare(text, mid) == Slice(text, 1, mid)

\* candidate = text[:mid] + ell
Candidate(text, mid) == Slice(text, 1, mid) \o ELL

\* texts given to the fit helpers
FitTexts == SeqsUpTo({"i", "W"}, MaxTextLen)

\* width limits, in 1/4000 pt
WidthLimits == {4000 * p : p \in {0, 5, 8, 10, 17, 20, 30, 40}}

\* integer sizes (max_size, min_size) given to fit_font_size
IntStarts == {4 * p : p \in {6, 9, 11}}
IntMins   == {4 * p : p \in {7, 8}}

\* float sizes (start, min_size) given to fit_draw: 10.0, 7.0 and 8.0, 8.25
DrawStarts == {40, 28}
DrawMins   == {32, 33}

FInit ==
    /\ BucketIdle
    /\ FlowIdle
    /\ CacheIdle
    /\ CanvasIdle
    /\ PrependIdle
    /\ MediaIdle
    /\ EntryIdle
    /\ NormIdle
    /\ AllocIdle
    /\ GroupIdle
    /\ StatusIdle
    /\ ElideIdle
    /\ variant = "util"
    /\ mapping = <<>>
    /\ lookup = <<>>
    /\ title = <<>>
    /\ result = None
    /\ rpc = "idle"
    /\ f_fn \in {"fit_font_size", "fit_draw"}
    /\ f_text \in FitTexts
    /\ f_max_w \in WidthLimits
    /\ f_start \in IF f_fn = "fit_font_size" THEN IntStarts ELSE DrawStarts
    /\ f_min \in IF f_fn = "fit_font_size" THEN IntMins ELSE DrawMins
    /\ f_size = 0
    /\ fpc = "call"

FitFontSize ==
    /\ fpc = "call"
    /\ f_fn = "fit_font_size"
    /\ f_size' = fit_font_size(f_text, f_start, f_max_w, f_min)
    /\ fpc' = "done"
    /\ UNCHANGED <<bvars, wvars, dvars, cvars, pvars, mvars, xvars, nvars, rvars, gvars, svars, avars, evars,
                   f_fn, f_text, f_max_w, f_start, f_min>>

FitDraw ==
    /\ fpc = "call"
    /\ f_fn = "fit_draw"
    /\ f_size' = fit_draw(f_text, f_max_w, f_start, f_min)
    /\ fpc' = "done"
    /\ UNCHANGED <<bvars, wvars, dvars, cvars, pvars, mvars, xvars, nvars, rvars, gvars, svars, avars, evars,
                   f_fn, f_text, f_max_w, f_start, f_min>>

FNext == FitFontSize \/ FitDraw

SpecFit == FInit /\ [][FNext]_vars

\* ---- elide_to_width, one action per step of its body

\* sizes given to elide_to_width: what fit_font_size returned (7, 9 or 11 pt)
ElideSizes == {4 * p : p \in {7, 9, 11}}

EInit ==
    /\ BucketIdle
    /\ FlowIdle
    /\ CacheIdle
    /\ CanvasIdle
    /\ PrependIdle
    /\ MediaIdle
    /\ EntryIdle
    /\ NormIdle
    /\ AllocIdle
    /\ GroupIdle
    /\ StatusIdle
    /\ FitIdle
    /\ variant = "util"
    /\ mapping = <<>>
    /\ lookup = <<>>
    /\ title = <<>>
    /\ result = None
    /\ rpc = "idle"
    /\ e_text \in FitTexts
    /\ e_size \in ElideSizes
    /\ e_max_w \in WidthLimits
    /\ lo = 0
    /\ hi = 0
    /\ best = <<>>
    /\ e_result = None
    /\ epc = "call"

\* if stringWidth(text, face, size) <= max_width: return text
ElideFits ==
    /\ epc = "call"
    /\ stringWidth(e_text, e_size) <= e_max_w
    /\ e_result' = e_text
    /\ epc' = "done"
    /\ UNCHANGED <<bvars, wvars, dvars, cvars, pvars, mvars, xvars, nvars, rvars, gvars, svars, avars, fvars,
                   e_text, e_size, e_max_w, lo, hi, best>>

\* lo, hi = 0, len(text); best = ""
ElideBegin ==
    /\ epc = "call"
    /\ stringWidth(e_text, e_size) > e_max_w
    /\ lo' = 0
    /\ hi' = Len(e_text)
    /\ best' = <<>>
    /\ epc' = "loop"
    /\ UNCHANGED <<bvars, wvars, dvars, cvars, pvars, mvars, xvars, nvars, rvars, gvars, svars, avars, fvars,
                   e_text, e_size, e_max_w, e_result>>

\* one iteration of "while lo <= hi"
ElideStep ==
    /\ epc = "loop"
    /\ lo <= hi
    /\ LET mid == (lo + hi) \div 2
           candidate == Candidate(e_text, mid)
       IN  IF stringWidth(candidate, e_size) <= e_max_w
           THEN /\ best' = candidate
                /\ lo' = mid + 1
                /\ hi' = hi
           ELSE /\ hi' = mid - 1
                /\ lo' = lo
                /\ best' = best
    /\ UNCHANGED <<bvars, wvars, dvars, cvars, pvars, mvars, xvars, nvars, rvars, gvars, svars, avars, fvars,
                   e_text, e_size, e_max_w, e_result, epc>>

\* return best or ell
ElideReturn ==
    /\ epc = "loop"
    /\ lo > hi
    /\ e_result' = IF best # <<>> THEN best ELSE ELL
    /\ epc' = "done"
    /\ UNCHANGED <<bvars, wvars, dvars, cvars, pvars, mvars, xvars, nvars, rvars, gvars, svars, avars, fvars,
                   e_text, e_size, e_max_w, lo, hi, best>>

ENext == ElideFits \/ ElideBegin \/ ElideStep \/ ElideReturn

\* the body of elide_to_width runs to its return without waiting on anything
SpecElide == EInit /\ [][ENext]_vars /\ WF_vars(ENext)

-----------------------------------------------------------------------------
(* normalize_title on arbitrary strings, and the lookup built from a table  *)
(* whose source title is that string                                         *)

\* the strings given to normalize_title; the empty one also stands for an
\* absent title ("if not s")
RawTitles == SeqsUpTo({"A", "b", " ", "\t"}, MaxTitleLen)

NInit ==
    /\ BucketIdle
    /\ FlowIdle
    /\ CacheIdle
    /\ CanvasIdle
    /\ PrependIdle
    /\ MediaIdle
    /\ EntryIdle
    /\ GroupIdle
    /\ StatusIdle
    /\ AllocIdle
    /\ FitIdle
    /\ ElideIdle
    /\ n_x \in RawTitles
    /\ n_key = <<>>
    /\ npc = "call"
    /\ variant \in {"util", "fill"}
    /\ mapping = << [major |-> "Structural Systems", src |-> n_x,
                     canonical |-> "Foundations"] >>
    /\ lookup = <<>>
    /\ title = <<>>
    /\ result = None
    /\ rpc = "start"

NormalizeTitle ==
    /\ npc = "call"
    /\ n_key' = normalize_title(n_x)
    /\ npc' = "done"
    /\ UNCHANGED <<bvars, wvars, dvars, cvars, pvars, mvars, xvars, rvars, gvars, svars, avars, fvars, evars, n_x>>

NNext == NormalizeTitle \/ BuildTitleLookup

SpecNormalize == NInit /\ [][NNext]_vars

-----------------------------------------------------------------------------
(* The entry points, reduced to the steps that touch files, in program      *)
(* order.  need: the step raises when the file does not exist (an explicit  *)
(* exists() check, open(), load_json or PdfReader); write: the file is      *)
(* created or rewritten; maybe: the write happens on some inputs only;      *)
(* remove: the file is unlinked.                                            *)

Step(k, f) == [kind |-> k, file |-> f]

\* fill_pdf_form.main
FillProgram ==
    << Step("need", "TEMPLATE"), Step("need", "JSON"), Step("need", "MAP"),
       Step("write", "UNMAPPED"), Step("maybe", "NARRATIVE"),
       Step("write", "OUTPUT"), Step("write", "PAYLOADS") >>

\* build_expanded_report.main
ExpandedProgram ==
    << Step("need", "TEMPLATE"), Step("need", "JSON"), Step("need", "MAP"),
       Step("need", "JSON"), Step("need", "JSON"), Step("need", "MAP"),
       Step("maybe", "IMAGES"), Step("write", "FLOW_TMP"),
       Step("need", "TEMPLATE"), Step("write", "OVERLAY"),
       Step("need", "FLOW_TMP"), Step("write", "OUTPUT") >>

\* script.main, with prepend_trec_pages
ScriptProgram ==
    << Step("need", "JSON"), Step("maybe", "IMAGES"), Step("write", "BODY"),
       Step("need", "JSON"), Step("need", "TEMPLATE"), Step("need", "BODY"),
       Step("write", "OVERLAY"), Step("write", "TMP_OUT"),
       Step("write", "OUTPUT"), Step("remove", "TMP_OUT"),
       Step("remove", "OVERLAY") >>

\* acform_probe_and_fill_all.main
ProbeProgram ==
    << Step("need", "TEMPLATE"), Step("write", "DUMP_TXT"),
       Step("write", "OUTPUT") >>

Program(e) ==
    CASE e = "fill" -> FillProgram
      [] e = "expanded" -> ExpandedProgram
      [] e = "script" -> ScriptProgram
      [] e = "probe" -> ProbeProgram

\* the input files an entry point requires
Required(e) ==
    CASE e = "fill" -> {"TEMPLATE", "JSON", "MAP"}
      [] e = "expanded" -> {"TEMPLATE", "JSON", "MAP"}
      [] e = "script" -> {"TEMPLATE", "JSON"}
      [] e = "probe" -> {"TEMPLATE"}

XInit ==
    /\ BucketIdle
    /\ FlowIdle
    /\ CacheIdle
    /\ CanvasIdle
    /\ PrependIdle
    /\ MediaIdle
    /\ GroupIdle
    /\ StatusIdle
    /\ AllocIdle
    /\ FitIdle
    /\ ElideIdle
    /\ NormIdle
    /\ variant = "util"
    /\ mapping = <<>>
    /\ lookup = <<>>
    /\ title = <<>>
    /\ result = None
    /\ rpc = "idle"
    /\ entry \in {"fill", "expanded", "script", "probe"}
    /\ present \in SUBSET {"TEMPLATE", "JSON", "MAP"}
    /\ xstep = 1
    /\ written = {}
    /\ outcome = "running"

Running == outcome = "running" /\ xstep <= Len(Program(entry))

ThisStep == Program(entry)[xstep]

Exists(f) == f \in present \/ f \in written

StepNeed ==
    /\ Running
    /\ ThisStep.kind = "need"
    /\ Exists(ThisStep.file)
    /\ xstep' = xstep + 1
    /\ UNCHANGED <<bvars, wvars, dvars, cvars, pvars, mvars, rvars, gvars, svars, avars, fvars, evars, nvars,
                   entry, present, written, outcome>>

StepRaise ==
    /\ Running
    /\ ThisStep.kind = "need"
    /\ ~Exists(ThisStep.file)
    /\ outcome' = "raised"
    /\ UNCHANGED <<bvars, wvars, dvars, cvars, pvars, mvars, rvars, gvars, svars, avars, fvars, evars, nvars,
                   entry, present, xstep, written>>

StepWrite ==
    /\ Running
    /\ ThisStep.kind = "write"
    /\ written' = written \cup {ThisStep.file}
    /\ xstep' = xstep + 1
    /\ UNCHANGED <<bvars, wvars, dvars, cvars, pvars, mvars, rvars, gvars, svars, avars, fvars, evars, nvars,
                   entry, present, outcome>>

StepMaybe ==
    /\ Running
    /\ ThisStep.kind = "maybe"
    /\ \E happens \in BOOLEAN :
          written' = IF happens THEN written \cup {ThisStep.file} ELSE written
    /\ xstep' = xstep + 1
    /\ UNCHANGED <<bvars, wvars, dvars, cvars, pvars, mvars, rvars, gvars, svars, avars, fvars, evars, nvars,
                   entry, present, outcome>>

StepRemove ==
    /\ Running
    /\ ThisStep.kind = "remove"
    /\ written' = written \ {ThisStep.file}
    /\ xstep' = xstep + 1
    /\ UNCHANGED <<bvars, wvars, dvars, cvars, pvars, mvars, rvars, gvars, svars, avars, fvars, evars, nvars,
                   entry, present, outcome>>

Finish ==
    /\ outcome = "running"
    /\ xstep > Len(Program(entry))
    /\ outcome' = "done"
    /\ UNCHANGED <<bvars, wvars, dvars, cvars, pvars, mvars, rvars, gvars, svars, avars, fvars, evars, nvars,
                   entry, present, xstep, written>>

XNext == StepNeed \/ StepRaise \/ StepWrite \/ StepMaybe \/ StepRemove \/ Finish

SpecEntry == XInit /\ [][XNext]_vars

-----------------------------------------------------------------------------
(* _collect_images: _save_bytes, the three resolvers and harvest.           *)
(* A media reference is [form, kind, content]:                              *)
(*   form  "str"  a string in the images list                               *)
(*         "url"  a dict with a URL-ish key, "path" a dict with a path key  *)
(*   kind  what the string is and what the environment answers:             *)
(*         data_ok        data-URI whose payload decodes                    *)
(*         data_bad       data-URI whose payload b64decode rejects          *)
(*         data_bad_long  the same, longer than a file name may be          *)
(*         local_ok       path of an existing file                          *)
(*         local_missing  path of no file                                   *)
(*         local_badname  path that pathlib rejects (NUL byte, "~user" of   *)
(*                        no user, name too long)                           *)
(*         http_ok        URL whose fetch succeeds                          *)
(*         http_fail      URL whose fetch fails or times out                *)
(*   content  the bytes behind it                                           *)

ALLOW_REMOTE_HTTP == TRUE

\* contents of image files
Contents == {"c1", "c2", "c3"}

\* hashlib.sha1(content).hexdigest()[:12]: 48 bits of the digest, so two
\* contents may share it
Sha12(content) ==
    CASE content = "c1" -> "h1"
      [] content = "c2" -> "h2"
      [] content = "c3" -> "h1"

\* extensions, as characters
Exts == { <<".", "a">>, <<".", "A">>, <<"a">>, <<>> }

\* if not ext.startswith("."): ext = f".{ext}" ; then ext.lower() or '.jpg'
DestExt(ext) ==
    LET dotted == IF ext # <<>> /\ Head(ext) = "." THEN ext ELSE <<".">> \o ext
    IN  IF Lower(dotted) # <<>> THEN Lower(dotted) ELSE <<".", "j", "p", "g">>

\* dest = IMAGES_DIR / f"{tag}_{h}{ext}"
Dest(content, ext, tag) == <<tag, Sha12(content), DestExt(ext)>>

\* _save_bytes that writes without looking
SaveAlways(d, content, ext, tag) ==
    [p \in DOMAIN d \cup {Dest(content, ext, tag)} |->
        IF p = Dest(content, ext, tag) THEN content ELSE d[p]]

\* if not dest.exists(): dest.write_bytes(content)  -- the disk afterwards
SaveDisk(d, content, ext, tag) ==
    IF Dest(content, ext, tag) \in DOMAIN d THEN d
    ELSE [p \in DOMAIN d \cup {Dest(content, ext, tag)} |->
             IF p = Dest(content, ext, tag) THEN content ELSE d[p]]

\* the write_bytes calls of one _save_bytes
SaveWrites(d, content, ext, tag) ==
    IF Dest(content, ext, tag) \in DOMAIN d THEN <<>> ELSE <<Dest(content, ext, tag)>>

IsData(r) == r.kind \in {"data_ok", "data_bad", "data_bad_long"}
IsHttp(r) == r.kind \in {"http_ok", "http_fail"}

\* the outcome of a resolver or of harvest on one reference:
\* saved (a save of content under tag, or None), fetched (a request was made),
\* raised (an exception left the function)
Outcome(tag, content, fetched, raised) ==
    [tag |-> tag, content |-> content, fetched |-> fetched, raised |-> raised]

Nothing == Outcome("", "", FALSE, FALSE)

\* _save_data_uri: None unless the string starts with "data:"; the decode is
\* inside try/except
save_data_uri(r) ==
    IF r.kind = "data_ok" THEN Outcome("datauri", r.content, FALSE, FALSE)
    ELSE Nothing

\* _copy_local: _resolve_local_candidate runs before the try
copy_local(r) ==
    IF IsHttp(r) THEN Nothing
    ELSE IF r.kind \in {"local_badname", "data_bad_long"}
         THEN Outcome("", "", FALSE, TRUE)
    ELSE IF r.kind = "local_ok" THEN Outcome("local", r.content, FALSE, FALSE)
    ELSE Nothing

\* _download_remote
download_remote(r) ==
    IF ~IsHttp(r) THEN Nothing
    ELSE IF ~ALLOW_REMOTE_HTTP THEN Nothing
    ELSE IF r.kind = "http_ok" THEN Outcome("remote", r.content, TRUE, FALSE)
    ELSE Outcome("", "", TRUE, FALSE)

\* a or b, for resolver outcomes: b is evaluated when a saved nothing
OrElse(a, b) ==
    IF a.raised \/ a.tag # "" THEN a
    ELSE [b EXCEPT !.fetched = a.fetched \/ b.fetched]

\* harvest(obj) for one reference
harvest(r) ==
    CASE r.form = "str" ->
            OrElse(OrElse(save_data_uri(r), copy_local(r)), download_remote(r))
      [] r.form = "path" -> copy_local(r)
      [] r.form = "url" -> OrElse(save_data_uri(r), download_remote(r))

\* the references a line item can carry
MediaRefs ==
    { [form |-> "str",  kind |-> "data_ok",       content |-> "c1"],
      [form |-> "str",  kind |-> "data_ok",       content |-> "c2"],
      [form |-> "str",  kind |-> "data_bad",      content |-> "c1"],
      [form |-> "str",  kind |-> "data_bad_long", content |-> "c1"],
      [form |-> "str",  kind |-> "local_ok",      content |-> "c1"],
      [form |-> "str",  kind |-> "local_missing", content |-> "c1"],
      [form |-> "str",  kind |-> "local_badname", content |-> "c1"],
      [form |-> "str",  kind |-> "http_ok",       content |-> "c3"],
      [form |-> "str",  kind |-> "http_fail",     content |-> "c3"],
      [form |-> "url",  kind |-> "data_ok",       content |-> "c2"],
      [form |-> "url",  kind |-> "data_bad_long", content |-> "c1"],
      [form |-> "url",  kind |-> "http_ok",       content |-> "c3"],
      [form |-> "url",  kind |-> "http_fail",     content |-> "c3"],
      [form |-> "path", kind |-> "local_ok",      content |-> "c2"],
      [form |-> "path", kind |-> "local_missing", content |-> "c1"] }

\* the extension a resolver passes to _save_bytes (one extension stands for
\* ".jpg", ".png", ".webp" and the suffix of a local file)
ExtOfTag(tag) == <<".", "a">>

MInit ==
    /\ BucketIdle
    /\ FlowIdle
    /\ CacheIdle
    /\ CanvasIdle
    /\ PrependIdle
    /\ GroupIdle
    /\ StatusIdle
    /\ AllocIdle
    /\ FitIdle
    /\ ElideIdle
    /\ NormIdle
    /\ EntryIdle
    /\ variant = "util"
    /\ mapping = <<>>
    /\ lookup = <<>>
    /\ title = <<>>
    /\ result = None
    /\ rpc = "idle"
    /\ m_refs \in SeqsUpTo(MediaRefs, MaxRefs)
    /\ m_ix = 0
    /\ m_out = <<>>
    /\ m_requests = <<>>
    /\ disk = EmptyDict
    /\ writes = <<>>
    /\ s_call = None
    /\ s_path = None
    /\ s_hist = <<>>
    /\ mpc = "harvest"

\* harvest of the next reference: it is saved and appended, skipped, or an
\* exception leaves _collect_images
HarvestRef ==
    /\ mpc = "harvest"
    /\ m_ix < Len(m_refs)
    /\ LET r == m_refs[m_ix + 1]
           o == harvest(r)
           ext == ExtOfTag(o.tag)
       IN  /\ m_requests' = IF o.fetched THEN Append(m_requests, r) ELSE m_requests
           /\ IF o.raised
              THEN /\ mpc' = "raised"
                   /\ UNCHANGED <<bvars, wvars, dvars, cvars, pvars, m_out, disk, writes, s_call, s_path, s_hist>>
              ELSE IF o.tag = ""
              THEN UNCHANGED <<bvars, wvars, dvars, cvars, pvars, mpc, m_out, disk, writes, s_call, s_path, s_hist>>
              ELSE /\ disk' = SaveDisk(disk, o.content, ext, o.tag)
                   /\ writes' = writes \o SaveWrites(disk, o.content, ext, o.tag)
                   /\ s_call' = <<o.content, ext, o.tag>>
                   /\ s_path' = Dest(o.content, ext, o.tag)
                   /\ s_hist' = Append(s_hist, <<s_call', s_path'>>)
                   /\ m_out' = Append(m_out, Dest(o.content, ext, o.tag))
                   /\ mpc' = mpc
    /\ m_ix' = m_ix + 1
    /\ UNCHANGED <<bvars, wvars, dvars, cvars, pvars, rvars, gvars, svars, avars, fvars, evars, nvars, xvars, m_refs>>

\* return out
CollectReturn ==
    /\ mpc = "harvest"
    /\ m_ix = Len(m_refs)
    /\ mpc' = "done"
    /\ UNCHANGED <<bvars, wvars, dvars, cvars, pvars, rvars, gvars, svars, avars, fvars, evars, nvars, xvars,
                   m_refs, m_ix, m_out, m_requests, disk, writes, s_call, s_path,
                   s_hist>>

MNext == HarvestRef \/ CollectReturn

SpecMedia == MInit /\ [][MNext]_vars

\* ---- _save_bytes called on its own, any number of times on one IMAGES_DIR

SaveTags == {"local", "datauri"}

SvInit ==
    /\ BucketIdle
    /\ FlowIdle
    /\ CacheIdle
    /\ CanvasIdle
    /\ PrependIdle
    /\ GroupIdle
    /\ StatusIdle
    /\ AllocIdle
    /\ FitIdle
    /\ ElideIdle
    /\ NormIdle
    /\ EntryIdle
    /\ variant = "util"
    /\ mapping = <<>>
    /\ lookup = <<>>
    /\ title = <<>>
    /\ result = None
    /\ rpc = "idle"
    /\ m_refs = <<>>
    /\ m_ix = 0
    /\ m_out = <<>>
    /\ m_requests = <<>>
    /\ disk = EmptyDict
    /\ writes = <<>>
    /\ s_call = None
    /\ s_path = None
    /\ s_hist = <<>>
    /\ mpc = "save"

SaveBytes ==
    /\ mpc = "save"
    /\ Len(s_hist) < MaxSaves
    /\ \E content \in Contents, ext \in Exts, tag \in SaveTags :
          /\ disk' = SaveDisk(disk, content, ext, tag)
          /\ writes' = writes \o SaveWrites(disk, content, ext, tag)
          /\ s_call' = <<content, ext, tag>>
          /\ s_path' = Dest(content, ext, tag)
          /\ s_hist' = Append(s_hist, <<s_call', s_path'>>)
    /\ UNCHANGED <<bvars, wvars, dvars, cvars, pvars, rvars, gvars, svars, avars, fvars, evars, nvars, xvars,
                   m_refs, m_ix, m_out, m_requests, mpc>>

SvNext == SaveBytes

SpecSave == SvInit /\ [][SvNext]_vars

-----------------------------------------------------------------------------
(* prepend_trec_pages, one action per statement group.  Every step that     *)
(* reads or writes a file, or calls into the PDF libraries, either succeeds *)
(* or lets an exception leave the function.                                 *)

PInit ==
    /\ BucketIdle
    /\ FlowIdle
    /\ CacheIdle
    /\ CanvasIdle
    /\ GroupIdle
    /\ StatusIdle
    /\ AllocIdle
    /\ FitIdle
    /\ ElideIdle
    /\ NormIdle
    /\ EntryIdle
    /\ MediaIdle
    /\ variant = "util"
    /\ mapping = <<>>
    /\ lookup = <<>>
    /\ title = <<>>
    /\ result = None
    /\ rpc = "idle"
    /\ p_same \in {"none", "body", "template"}
    /\ p_json \in {"ok", "missing"}
    /\ p_inputs_ok \in BOOLEAN
    /\ p_out0 \in {"absent", "old"}
    /\ p_same # "none" => (p_out0 = "old" /\ p_inputs_ok)
    /\ p_out = p_out0
    /\ p_tmp \in {"absent", "complete"}
    /\ p_overlay \in {"absent", "complete"}
    /\ p_touched = {}
    /\ p_exc = None
    /\ ppc = "json"

\* with open(json_path) as f: vals = _extract_vals(json.load(f))
LoadJson ==
    /\ ppc = "json"
    /\ IF p_json = "ok"
       THEN ppc' = "check" /\ p_exc' = p_exc
       ELSE ppc' = "raised" /\ p_exc' = "FileNotFoundError"
    /\ UNCHANGED <<bvars, wvars, dvars, cvars, rvars, gvars, svars, avars, fvars, evars, nvars, xvars, mvars,
                   p_same, p_json, p_inputs_ok, p_out0, p_out, p_tmp, p_overlay, p_touched>>

\* the argument check left out
CheckArgsNever ==
    /\ ppc = "check"
    /\ ppc' = "read"
    /\ p_exc' = p_exc
    /\ UNCHANGED <<bvars, wvars, dvars, cvars, rvars, gvars, svars, avars, fvars, evars, nvars, xvars, mvars,
                   p_same, p_json, p_inputs_ok, p_out0, p_out, p_tmp, p_overlay, p_touched>>

\* if ap(out_pdf) == ap(body_pdf): raise ValueError; the same for template_pdf
CheckArgs ==
    /\ ppc = "check"
    /\ IF p_same # "none"
       THEN ppc' = "raised" /\ p_exc' = "ValueError"
       ELSE ppc' = "read" /\ p_exc' = p_exc
    /\ UNCHANGED <<bvars, wvars, dvars, cvars, rvars, gvars, svars, avars, fvars, evars, nvars, xvars, mvars,
                   p_same, p_json, p_inputs_ok, p_out0, p_out, p_tmp, p_overlay, p_touched>>

\* tpl = PdfReader(template_pdf); body = PdfReader(body_pdf)
ReadInputs ==
    /\ ppc = "read"
    /\ IF p_inputs_ok
       THEN ppc' = "assemble" /\ p_exc' = p_exc
       ELSE ppc' = "raised" /\ p_exc' = "FileNotFoundError"
    /\ UNCHANGED <<bvars, wvars, dvars, cvars, rvars, gvars, svars, avars, fvars, evars, nvars, xvars, mvars,
                   p_same, p_json, p_inputs_ok, p_out0, p_out, p_tmp, p_overlay, p_touched>>

\* w = PdfWriter(); add the front pages; clear the annotations of page 1
Assemble ==
    /\ ppc = "assemble"
    /\ \E fails \in BOOLEAN :
          IF fails
          THEN ppc' = "raised" /\ p_exc' = "PdfError"
          ELSE ppc' = "overlay" /\ p_exc' = p_exc
    /\ UNCHANGED <<bvars, wvars, dvars, cvars, rvars, gvars, svars, avars, fvars, evars, nvars, xvars, mvars,
                   p_same, p_json, p_inputs_ok, p_out0, p_out, p_tmp, p_overlay, p_touched>>

\* _make_overlay_pdf(tmp_overlay_p1, vals): the canvas writes the file at save()
MakeOverlay ==
    /\ ppc = "overlay"
    /\ \E fails \in BOOLEAN :
          IF fails
          THEN /\ ppc' = "raised" /\ p_exc' = "OSError"
               /\ p_overlay' \in {p_overlay, "partial"}
               /\ p_touched' = IF p_overlay' = p_overlay THEN p_touched
                                ELSE p_touched \cup {"overlay"}
          ELSE /\ ppc' = "merge" /\ p_exc' = p_exc
               /\ p_overlay' = "complete"
               /\ p_touched' = p_touched \cup {"overlay"}
    /\ UNCHANGED <<bvars, wvars, dvars, cvars, rvars, gvars, svars, avars, fvars, evars, nvars, xvars, mvars,
                   p_same, p_json, p_inputs_ok, p_out0, p_out, p_tmp>>

\* ov = PdfReader(tmp_overlay_p1); w.pages[0].merge_page(ov.pages[0])
MergeOverlay ==
    /\ ppc = "merge"
    /\ \E fails \in BOOLEAN :
          IF fails
          THEN ppc' = "raised" /\ p_exc' = "PdfError"
          ELSE ppc' = "page2" /\ p_exc' = p_exc
    /\ UNCHANGED <<bvars, wvars, dvars, cvars, rvars, gvars, svars, avars, fvars, evars, nvars, xvars, mvars,
                   p_same, p_json, p_inputs_ok, p_out0, p_out, p_tmp, p_overlay, p_touched>>

\* if nfront >= 2: copy the AcroForm and fill "Text1" and "Page 2 of"
FillPage2 ==
    /\ ppc = "page2"
    /\ \E fails \in BOOLEAN :
          IF fails
          THEN ppc' = "raised" /\ p_exc' = "PdfError"
          ELSE ppc' = "append" /\ p_exc' = p_exc
    /\ UNCHANGED <<bvars, wvars, dvars, cvars, rvars, gvars, svars, avars, fvars, evars, nvars, xvars, mvars,
                   p_same, p_json, p_inputs_ok, p_out0, p_out, p_tmp, p_overlay, p_touched>>

\* for pg in body.pages: w.add_page(pg)
AppendBody ==
    /\ ppc = "append"
    /\ \E fails \in BOOLEAN :
          IF fails
          THEN ppc' = "raised" /\ p_exc' = "PdfError"
          ELSE ppc' = "open_tmp" /\ p_exc' = p_exc
    /\ UNCHANGED <<bvars, wvars, dvars, cvars, rvars, gvars, svars, avars, fvars, evars, nvars, xvars, mvars,
                   p_same, p_json, p_inputs_ok, p_out0, p_out, p_tmp, p_overlay, p_touched>>

\* open(tmp_out, "wb"): the temporary output is created or truncated
OpenTmp ==
    /\ ppc = "open_tmp"
    /\ \E fails \in BOOLEAN :
          IF fails
          THEN /\ ppc' = "raised" /\ p_exc' = "OSError"
               /\ UNCHANGED <<bvars, wvars, dvars, cvars, p_tmp, p_touched>>
          ELSE /\ ppc' = "write_tmp" /\ p_exc' = p_exc
               /\ p_tmp' = "partial"
               /\ p_touched' = p_touched \cup {"tmp_out"}
    /\ UNCHANGED <<bvars, wvars, dvars, cvars, rvars, gvars, svars, avars, fvars, evars, nvars, xvars, mvars,
                   p_same, p_json, p_inputs_ok, p_out0, p_out, p_overlay>>

\* the document written straight to out_pdf
WriteTmpInPlace ==
    /\ ppc = "write_tmp"
    /\ \E fails \in BOOLEAN :
          IF fails
          THEN /\ ppc' = "raised" /\ p_exc' = "OSError"
               /\ p_out' = "partial"
          ELSE /\ ppc' = "replace" /\ p_exc' = p_exc
               /\ p_out' = "final"
    /\ p_touched' = p_touched \cup {"out_pdf"}
    /\ UNCHANGED <<bvars, wvars, dvars, cvars, rvars, gvars, svars, avars, fvars, evars, nvars, xvars, mvars,
                   p_same, p_json, p_inputs_ok, p_out0, p_tmp, p_overlay>>

\* w.write(f) and the close of tmp_out
WriteTmp ==
    /\ ppc = "write_tmp"
    /\ \E fails \in BOOLEAN :
          IF fails
          THEN /\ ppc' = "raised" /\ p_exc' = "OSError"
               /\ p_tmp' = "partial"
          ELSE /\ ppc' = "replace" /\ p_exc' = p_exc
               /\ p_tmp' = "complete"
    /\ UNCHANGED <<bvars, wvars, dvars, cvars, rvars, gvars, svars, avars, fvars, evars, nvars, xvars, mvars,
                   p_same, p_json, p_inputs_ok, p_out0, p_out, p_overlay, p_touched>>

\* os.replace(tmp_out, out_pdf): one rename, or an error that changes nothing
Replace ==
    /\ ppc = "replace"
    /\ \E fails \in BOOLEAN :
          IF fails
          THEN /\ ppc' = "raised" /\ p_exc' = "OSError"
               /\ UNCHANGED <<bvars, wvars, dvars, cvars, p_out, p_tmp, p_touched>>
          ELSE /\ ppc' = "cleanup" /\ p_exc' = p_exc
               /\ p_out' = IF p_tmp = "complete" THEN "final" ELSE "partial"
               /\ p_tmp' = "absent"
               /\ p_touched' = p_touched \cup {"out_pdf", "tmp_out"}
    /\ UNCHANGED <<bvars, wvars, dvars, cvars, rvars, gvars, svars, avars, fvars, evars, nvars, xvars, mvars,
                   p_same, p_json, p_inputs_ok, p_out0, p_overlay>>

\* try: os.remove(tmp_overlay_p1) except Exception: pass
Cleanup ==
    /\ ppc = "cleanup"
    /\ \E fails \in BOOLEAN :
          p_overlay' = IF fails THEN p_overlay ELSE "absent"
    /\ p_touched' = p_touched \cup {"overlay"}
    /\ ppc' = "done"
    /\ UNCHANGED <<bvars, wvars, dvars, cvars, rvars, gvars, svars, avars, fvars, evars, nvars, xvars, mvars,
                   p_same, p_json, p_inputs_ok, p_out0, p_out, p_tmp, p_exc>>

PNext ==
    \/ LoadJson \/ CheckArgs \/ ReadInputs \/ Assemble \/ MakeOverlay
    \/ MergeOverlay \/ FillPage2 \/ AppendBody \/ OpenTmp \/ WriteTmp
    \/ Replace \/ Cleanup

SpecPrepend == PInit /\ [][PNext]_vars

-----------------------------------------------------------------------------
(* NumberedCanvas: pages are kept at showPage and emitted, numbered, at save *)

\* contents a page can have when showPage is called: nothing, or one drawing
Drawings == {"x", "y"}

\* the footer label of a saved state: "Page {final_n} of {total_final}" in
\* script.py, "Page {_pageNumber} of {n}" in bonus_pdf.py
FooterLabel(class, offset, state, saved) ==
    IF class = "script"
    THEN [n |-> offset + state.number, of |-> Len(saved) + offset]
    ELSE [n |-> state.number, of |-> Len(saved)]

CInit ==
    /\ BucketIdle
    /\ FlowIdle
    /\ CacheIdle
    /\ PrependIdle
    /\ MediaIdle
    /\ EntryIdle
    /\ NormIdle
    /\ FitIdle
    /\ ElideIdle
    /\ AllocIdle
    /\ StatusIdle
    /\ GroupIdle
    /\ variant = "util"
    /\ mapping = <<>>
    /\ lookup = <<>>
    /\ title = <<>>
    /\ result = None
    /\ rpc = "idle"
    /\ c_class \in {"script", "bonus_pdf"}
    /\ c_offset \in (IF c_class = "script" THEN {0, 2} ELSE {0})
    /\ c_number = 1
    /\ c_code = <<>>
    /\ c_saved = <<>>
    /\ c_emitted = <<>>
    /\ c_calls = <<>>
    /\ c_ix = 0
    /\ cpc = "open"

\* a drawing operation on the page in progress
Draw ==
    /\ cpc = "open"
    /\ c_code = <<>>
    /\ Len(c_calls) < MaxPages
    /\ \E d \in Drawings : c_code' = <<d>>
    /\ UNCHANGED <<bvars, wvars, dvars, pvars, mvars, xvars, nvars, fvars, evars, rvars, gvars, svars, avars,
                   c_class, c_offset, c_number, c_saved, c_emitted, c_calls, c_ix, cpc>>

\* a showPage that keeps the state and also emits the page at once
ShowPageEmits ==
    /\ cpc = "open"
    /\ Len(c_calls) < MaxPages
    /\ c_saved' = Append(c_saved, [number |-> c_number, code |-> c_code])
    /\ c_calls' = Append(c_calls, c_code)
    /\ c_emitted' = Append(c_emitted, [code |-> c_code, label |-> [n |-> 0, of |-> 0]])
    /\ c_number' = c_number + 1
    /\ c_code' = <<>>
    /\ UNCHANGED <<bvars, wvars, dvars, pvars, mvars, xvars, nvars, fvars, evars, rvars, gvars, svars, avars,
                   c_class, c_offset, c_ix, cpc>>

\* NumberedCanvas.showPage: append a copy of the state, then _startPage()
\* (which counts the page and clears what was drawn)
ShowPage ==
    /\ cpc = "open"
    /\ Len(c_calls) < MaxPages
    /\ c_saved' = Append(c_saved, [number |-> c_number, code |-> c_code])
    /\ c_calls' = Append(c_calls, c_code)
    /\ c_number' = c_number + 1
    /\ c_code' = <<>>
    /\ UNCHANGED <<bvars, wvars, dvars, pvars, mvars, xvars, nvars, fvars, evars, rvars, gvars, svars, avars,
                   c_class, c_offset, c_emitted, c_ix, cpc>>

\* NumberedCanvas.save is entered: the totals are taken from the saved states
SaveBegin ==
    /\ cpc = "open"
    /\ cpc' = "saving"
    /\ c_ix' = 0
    /\ UNCHANGED <<bvars, wvars, dvars, pvars, mvars, xvars, nvars, fvars, evars, rvars, gvars, svars, avars,
                   c_class, c_offset, c_number, c_code, c_saved, c_emitted, c_calls>>

\* one pass of "for state in self._saved_page_states": restore the state, draw
\* the label, Canvas.showPage (emit the page, then _startPage)
SaveStep ==
    /\ cpc = "saving"
    /\ c_ix < Len(c_saved)
    /\ LET state == c_saved[c_ix + 1]
       IN /\ c_emitted' = Append(c_emitted,
                [code |-> state.code,
                 label |-> FooterLabel(c_class, c_offset, state, c_saved)])
          /\ c_number' = state.number + 1
    /\ c_code' = <<>>
    /\ c_ix' = c_ix + 1
    /\ UNCHANGED <<bvars, wvars, dvars, pvars, mvars, xvars, nvars, fvars, evars, rvars, gvars, svars, avars,
                   c_class, c_offset, c_saved, c_calls, cpc>>

\* Canvas.save after the loop: "if len(self._code): self.showPage()" reaches
\* the overriding showPage, then the file is written
SaveEnd ==
    /\ cpc = "saving"
    /\ c_ix >= Len(c_saved)
    /\ IF c_code # <<>>
       THEN /\ c_saved' = Append(c_saved, [number |-> c_number, code |-> c_code])
            /\ c_number' = c_number + 1
            /\ c_code' = <<>>
       ELSE UNCHANGED <<bvars, wvars, dvars, c_saved, c_number, c_code>>
    /\ cpc' = "closed"
    /\ UNCHANGED <<bvars, wvars, dvars, pvars, mvars, xvars, nvars, fvars, evars, rvars, gvars, svars, avars,
                   c_class, c_offset, c_emitted, c_calls, c_ix>>

CNext == Draw \/ ShowPage \/ SaveBegin \/ SaveStep \/ SaveEnd

SpecCanvas == CInit /\ [][CNext]_vars

-----------------------------------------------------------------------------
(* Download cache: download_url of script.py, download_to_cache of bonus_pdf.py *)

\* the characters the pattern [^A-Za-z0-9._-]+ leaves alone
SafeChars == {"a", "b", "1", ".", "_", "-"}

\* os.path.basename: what follows the last "/"
RECURSIVE Basename(_)
Basename(path) ==
    IF path = <<>> THEN <<>>
    ELSE IF path[Len(path)] = "/" THEN <<>>
    ELSE Append(Basename(SubSeq(path, 1, Len(path) - 1)), path[Len(path)])

\* re.sub(r"[^A-Za-z0-9._-]+", "_", s): each run of other characters becomes one "_"
RECURSIVE SubUnsafe(_, _)
SubUnsafe(s, inRun) ==
    IF s = <<>> THEN <<>>
    ELSE IF Head(s) \in SafeChars THEN <<Head(s)>> \o SubUnsafe(Tail(s), FALSE)
    ELSE IF inRun THEN SubUnsafe(Tail(s), TRUE)
    ELSE <<"_">> \o SubUnsafe(Tail(s), TRUE)

STR_media == <<"m", "e", "d", "i", "a">>

\* sanitize_filename: the basename of the URL's path (urlparse leaves host and
\* query out of it), or "media", with the unsafe runs replaced
sanitize_filename(url) ==
    LET base == IF Basename(url.path) = <<>> THEN STR_media ELSE Basename(url.path)
    IN SubUnsafe(base, FALSE)

\* URLs: two that differ in the query only, one of another host and
\* directory with the same basename, one whose basename needs replacing, one
\* that equals its replacement, one without a basename
Urls ==
    { [host |-> "h", path |-> <<"/", "a">>, query |-> <<"1">>],
      [host |-> "h", path |-> <<"/", "a">>, query |-> <<"2">>],
      [host |-> "g", path |-> <<"/", "b", "/", "a">>, query |-> <<>>],
      [host |-> "h", path |-> <<"/", "b", " ", "%">>, query |-> <<>>],
      [host |-> "h", path |-> <<"/", "b", "_">>, query |-> <<>>],
      [host |-> "h", path |-> <<"/">>, query |-> <<>>] }

\* how requests.get and the chunk loop can end: all chunks written, an error
\* before the file is opened, an error after open() and before the first
\* chunk, an error after some chunks
FetchOutcomes == {"ok", "refused", "cut_empty", "cut_partial"}

\* the file a fetch of url leaves at the local path
FetchedFile(url, how) ==
    [of |-> url,
     part |-> CASE how = "ok" -> "all"
                [] how = "cut_empty" -> "none"
                [] how = "cut_partial" -> "some"]

\* the test that makes a call return the local path without fetching
CacheHit(class, cache, name) ==
    /\ name \in DOMAIN cache
    /\ (class = "bonus_pdf") => cache[name].part # "none"

DInit ==
    /\ BucketIdle
    /\ FlowIdle
    /\ CanvasIdle
    /\ PrependIdle
    /\ MediaIdle
    /\ EntryIdle
    /\ NormIdle
    /\ FitIdle
    /\ ElideIdle
    /\ AllocIdle
    /\ StatusIdle
    /\ GroupIdle
    /\ variant = "util"
    /\ mapping = <<>>
    /\ lookup = <<>>
    /\ title = <<>>
    /\ result = None
    /\ rpc = "idle"
    /\ d_class \in {"script", "bonus_pdf"}
    /\ d_cache = EmptyDict
    /\ d_hist = <<>>
    /\ dpc = "ready"

\* one call of download_url / download_to_cache
Download ==
    /\ dpc = "ready"
    /\ Len(d_hist) < MaxCalls
    /\ \E url \in Urls : \E how \in FetchOutcomes :
          LET name == sanitize_filename(url)
          IN IF CacheHit(d_class, d_cache, name)
             THEN /\ d_cache' = d_cache
                  /\ d_hist' = Append(d_hist,
                        [url |-> url, path |-> name, hit |-> TRUE, held |-> d_cache[name]])
             ELSE /\ d_cache' =
                        IF how = "refused" THEN d_cache
                        ELSE [k \in DOMAIN d_cache \cup {name} |->
                                 IF k = name THEN FetchedFile(url, how) ELSE d_cache[k]]
                  /\ d_hist' = Append(d_hist,
                        IF how = "ok"
                        THEN [url |-> url, path |-> name, hit |-> FALSE,
                              held |-> FetchedFile(url, how)]
                        ELSE [url |-> url, path |-> None, hit |-> FALSE, held |-> None])
    /\ UNCHANGED <<bvars, wvars, cvars, pvars, mvars, xvars, nvars, fvars, evars, rvars, gvars, svars, avars,
                   d_class, dpc>>

DNext == Download

SpecCache == DInit /\ [][DNext]_vars

-----------------------------------------------------------------------------
(* build_flow_pdf: the story is built in the order of the fixed taxonomy *)

ORDERED_MAJOR ==
    << "I. STRUCTURAL SYSTEMS", "II. ELECTRICAL SYSTEMS",
       "III. HEATING, VENTILATION AND AIR CONDITIONING SYSTEMS",
       "IV. PLUMBING SYSTEMS", "V. APPLIANCES", "VI. OPTIONAL SYSTEMS" >>

MAJOR_TO_SUBSECTION_ORDER ==
    [m \in {ORDERED_MAJOR[k] : k \in 1..Len(ORDERED_MAJOR)} |->
        CASE m = "I. STRUCTURAL SYSTEMS" ->
             << "Foundations", "Grading and Drainage", "Roof Covering Materials",
                "Roof Structures and Attics", "Walls (Interior and Exterior)",
                "Ceilings and Floors", "Doors (Interior and Exterior)", "Windows",
                "Stairways (Interior and Exterior)", "Fireplaces and Chimneys",
                "Porches, Balconies, Decks, and Carports", "Other" >>
          [] m = "II. ELECTRICAL SYSTEMS" ->
             << "Service Entrance and Panels",
                "Branch Circuits, Connected Devices, and Fixtures",
                "Other (Electrical)" >>
          [] m = "III. HEATING, VENTILATION AND AIR CONDITIONING SYSTEMS" ->
             << "Heating Equipment", "Cooling Equipment",
                "Duct Systems, Chases, and Vents", "Other (HVAC)" >>
          [] m = "IV. PLUMBING SYSTEMS" ->
             << "Plumbing Supply, Distribution Systems and Fixtures",
                "Drains, Wastes, and Vents", "Water Heating Equipment",
                "Hydro-Massage Therapy Equipment",
                "Gas Distribution Systems and Gas Appliances", "Other (Plumbing)" >>
          [] m = "V. APPLIANCES" ->
             << "Dishwashers", "Food Waste Disposers",
                "Range Hood and Exhaust Systems", "Ranges, Cooktops, and Ovens",
                "Microwave Ovens", "Mechanical Exhaust Vents and Bathroom Heaters",
                "Garage Door Operators", "Dryer Exhaust Systems",
                "Other (Appliances)" >>
          [] m = "VI. OPTIONAL SYSTEMS" ->
             << "Landscape Irrigation (Sprinkler) Systems",
                "Swimming Pools, Spas, Hot Tubs, and Equipment", "Outbuildings",
                "Private Water Wells", "Private Sewage Disposal Systems",
                "Private Sewage Systems", "Other Built-in Appliances",
                "Other (Optional)" >>]

\* grouped.get(major, {}).get(sub, [])
GetItems(g, major, sub) ==
    IF major \in DOMAIN g /\ sub \in DOMAIN g[major] THEN g[major][sub] ELSE <<>>

\* what group_items_detailed can have returned: item lists under two listed
\* subsections of the first major, under a listed one of the second major,
\* and under the second major with a canonical name its list does not have
FlowLists ==
    { <<>>,
      <<[label |-> <<"a">>, text |-> <<>>, type |-> STR_info, images |-> <<>>]>>,
      <<[label |-> <<"b">>, text |-> <<"o", "k">>, type |-> STR_defect, images |-> <<>>],
        [label |-> <<"a">>, text |-> <<>>, type |-> STR_info, images |-> <<>>]>> }

FlowGrouped ==
    { LET subs(m) == IF m = "I. STRUCTURAL SYSTEMS"
                     THEN [s \in {"Foundations", "Windows"} |->
                              IF s = "Foundations" THEN f ELSE w]
                     ELSE [s \in {"Service Entrance and Panels", "Windows"} |->
                              IF s = "Windows" THEN x ELSE e]
          kept(m) == [s \in {k \in DOMAIN subs(m) : subs(m)[k] # <<>>} |-> subs(m)[s]]
      IN [m \in {k \in {"I. STRUCTURAL SYSTEMS", "II. ELECTRICAL SYSTEMS"} :
                    DOMAIN kept(k) # {}} |-> kept(m)] :
        f \in FlowLists, w \in FlowLists, e \in FlowLists, x \in FlowLists }

WInit ==
    /\ BucketIdle
    /\ CacheIdle
    /\ CanvasIdle
    /\ PrependIdle
    /\ MediaIdle
    /\ EntryIdle
    /\ NormIdle
    /\ FitIdle
    /\ ElideIdle
    /\ AllocIdle
    /\ StatusIdle
    /\ variant = "util"
    /\ mapping = <<>>
    /\ lookup = <<>>
    /\ title = <<>>
    /\ result = None
    /\ rpc = "idle"
    /\ data = <<>>
    /\ grouped \in FlowGrouped
    /\ fgrouped = EmptyDict
    /\ unmatched = <<>>
    /\ story = <<>>
    /\ w_major = 1
    /\ w_sub = 0
    /\ wpc = "major"

\* "for major in ORDERED_MAJOR": has_any, and the heading when it is true
FlowMajor ==
    /\ wpc = "major"
    /\ w_major <= Len(ORDERED_MAJOR)
    /\ LET major == ORDERED_MAJOR[w_major]
           subsections == MAJOR_TO_SUBSECTION_ORDER[major]
           has_any == \E k \in 1..Len(subsections) :
                          GetItems(grouped, major, subsections[k]) # <<>>
       IN IF has_any
          THEN /\ story' = Append(story, [kind |-> "major", major |-> major])
               /\ w_sub' = 1
               /\ wpc' = "sub"
               /\ UNCHANGED w_major
          ELSE /\ w_major' = w_major + 1
               /\ UNCHANGED <<bvars, story, w_sub, wpc>>
    /\ UNCHANGED <<bvars, dvars, cvars, pvars, mvars, xvars, nvars, fvars, evars, rvars, gvars, svars, avars>>

\* the flowables of _flow_for_subsection: the subsection heading, then one
\* group of flowables per item, in list order
FlowForSubsection(major, sub, its) ==
    <<[kind |-> "sub", major |-> major, sub |-> sub]>>
        \o [k \in 1..Len(its) |->
               [kind |-> "item", major |-> major, sub |-> sub, item |-> its[k]]]

\* "for sub in subsections": skip a subsection without items, else extend the story
FlowSub ==
    /\ wpc = "sub"
    /\ LET major == ORDERED_MAJOR[w_major]
           subsections == MAJOR_TO_SUBSECTION_ORDER[major]
       IN IF w_sub <= Len(subsections)
          THEN /\ story' =
                     IF GetItems(grouped, major, subsections[w_sub]) = <<>>
                     THEN story
                     ELSE story \o FlowForSubsection(major, subsections[w_sub],
                                       GetItems(grouped, major, subsections[w_sub]))
               /\ w_sub' = w_sub + 1
               /\ UNCHANGED <<bvars, w_major, wpc>>
          ELSE /\ w_major' = w_major + 1
               /\ wpc' = "major"
               /\ UNCHANGED <<bvars, story, w_sub>>
    /\ UNCHANGED <<bvars, dvars, cvars, pvars, mvars, xvars, nvars, fvars, evars, rvars, gvars, svars, avars>>

\* doc.build(story)
FlowBuild ==
    /\ wpc = "major"
    /\ w_major > Len(ORDERED_MAJOR)
    /\ wpc' = "done"
    /\ UNCHANGED <<bvars, dvars, cvars, pvars, mvars, xvars, nvars, fvars, evars, rvars, gvars, svars, avars,
                   story, w_major, w_sub>>

WNext == FlowMajor \/ FlowSub \/ FlowBuild

SpecFlow == WInit /\ [][WNext]_vars

-----------------------------------------------------------------------------
(* severity_bucket of bonus_pdf.py *)

STR_safety == <<"s", "a", "f", "e", "t", "y">>
STR_safety_hazard == <<"s", "a", "f", "e", "t", "y", "-", "h", "a", "z", "a", "r", "d">>
STR_warning == <<"w", "a", "r", "n", "i", "n", "g">>
STR_deficiency == <<"d", "e", "f", "i", "c", "i", "e", "n", "c", "y">>
STR_recommendation == <<"r", "e", "c", "o", "m", "m", "e", "n", "d", "a", "t", "i", "o", "n">>
STR_limitation == <<"l", "i", "m", "i", "t", "a", "t", "i", "o", "n">>

\* normalize: (x or "").strip().lower()
normalize(x) == Lower(Strip(x))

\* severity_bucket: the conditions in the order of the code
severity_bucket(comment) ==
    LET t == normalize(comment.type)
        tag == normalize(comment.tag)
    IN IF IsSubstring(STR_safety, tag) \/ tag = STR_safety_hazard \/ t = STR_warning
       THEN "Safety Hazard"
       ELSE IF t \in {STR_defect, STR_deficiency} THEN "Defect"
       ELSE IF t = STR_warning THEN "Warning"
       ELSE IF t = STR_recommendation THEN "Recommendation"
       ELSE IF t \in {STR_limit, STR_limitation} THEN "Limitation"
       ELSE IF t = STR_info THEN "Info"
       ELSE "Other"

\* the keys of the colour table of badge_color
BadgeBuckets ==
    {"Safety Hazard", "Defect", "Warning", "Recommendation", "Limitation", "Info", "Other"}

\* types of comments: every name the function tests, with case and padding
\* varied, an unknown one and none
CommentTypes ==
    { <<>>,
      <<"d", "e", "f", "e", "c", "t">>,
      <<"D", "e", "f", "e", "c", "t", " ">>,
      <<"d", "e", "f", "i", "c", "i", "e", "n", "c", "y">>,
      <<"w", "a", "r", "n", "i", "n", "g">>,
      <<" ", "W", "a", "r", "n", "i", "n", "g">>,
      <<"r", "e", "c", "o", "m", "m", "e", "n", "d", "a", "t", "i", "o", "n">>,
      <<"l", "i", "m", "i", "t">>,
      <<"l", "i", "m", "i", "t", "a", "t", "i", "o", "n">>,
      <<"i", "n", "f", "o">>,
      <<"n", "o", "t", "e">> }

\* tags: none, the two the function names, one that contains "safety", another
CommentTags ==
    { <<>>,
      <<"s", "a", "f", "e", "t", "y">>,
      <<"S", "a", "f", "e", "t", "y", "-", "h", "a", "z", "a", "r", "d">>,
      <<"f", "i", "r", "e", " ", "s", "a", "f", "e", "t", "y">>,
      <<"c", "o", "s", "m", "e", "t", "i", "c">> }

BInit ==
    /\ FlowIdle
    /\ CacheIdle
    /\ CanvasIdle
    /\ PrependIdle
    /\ MediaIdle
    /\ EntryIdle
    /\ NormIdle
    /\ FitIdle
    /\ ElideIdle
    /\ AllocIdle
    /\ StatusIdle
    /\ GroupIdle
    /\ variant = "util"
    /\ mapping = <<>>
    /\ lookup = <<>>
    /\ title = <<>>
    /\ result = None
    /\ rpc = "idle"
    /\ b_comment \in [type : CommentTypes, tag : CommentTags]
    /\ b_bucket = None
    /\ bpc = "start"

SeverityBucket ==
    /\ bpc = "start"
    /\ b_bucket' = severity_bucket(b_comment)
    /\ bpc' = "done"
    /\ UNCHANGED <<wvars, dvars, cvars, pvars, mvars, xvars, nvars, fvars, evars, rvars, gvars, svars, avars,
                   b_comment>>

BNext == SeverityBucket

SpecBucket == BInit /\ [][BNext]_vars

-----------------------------------------------------------------------------
(* Claims about the resolver *)

KnownMajor(i) == mapping[i].major \in DOMAIN MajorTable(variant)

\* the canonical major of entry i (an unknown major name has no canonical form
\* in the table and stands for itself)
CanonicalMajor(i) ==
    IF KnownMajor(i) THEN MajorTable(variant)[mapping[i].major] ELSE mapping[i].major

\* entry j is entered in the lookup under the key of entry i
SameKey(i, j) ==
    /\ KnownMajor(j)
    /\ normalize_title(mapping[j].src) = normalize_title(mapping[i].src)

\* entry i is the last one written under its key
LastUnderKey(i) == KnownMajor(i) /\ \A j \in (i + 1)..Len(mapping) : ~SameKey(i, j)

\* C1 as stated: resolving the source title of ANY mapping entry returns
\* exactly (canonical major of that entry, its subsection), for all tables.
C1_ExactnessAllTables ==
    (rpc = "resolved") =>
        \A i \in 1..Len(mapping) :
            (mapping[i].src = title) =>
                result = <<CanonicalMajor(i), mapping[i].canonical>>

\* C1 amended: resolving the source title of a mapping entry returns exactly
\* (canonical major, subsection) of that entry when the entry's major is one
\* of the six known names and no later known-major entry normalises to the
\* same key.
C1_ExactnessLastKnown ==
    (rpc = "resolved") =>
        \A i \in 1..Len(mapping) :
            (mapping[i].src = title /\ LastUnderKey(i)) =>
                result = <<CanonicalMajor(i), mapping[i].canonical>>

\* a source title resolved to its own entry although an earlier entry with
\* another value was written under the same key
C1_Witness ==
    /\ rpc = "resolved"
    /\ \E i \in 1..Len(mapping) :
          /\ mapping[i].src = title
          /\ LastUnderKey(i)
          /\ result = <<CanonicalMajor(i), mapping[i].canonical>>
          /\ \E j \in 1..(i - 1) :
                /\ SameKey(i, j)
                /\ mapping[j].src # mapping[i].src
                /\ mapping[j].canonical # mapping[i].canonical

\* key e stands in one of the three relations to the normalised title k
Related(ekey, k) == ekey = k \/ IsSubstring(ekey, k) \/ IsSubstring(k, ekey)

\* C2: resolve_item returns None iff no lookup key equals the normalised
\* title, is a substring of it or contains it; a returned value is the value
\* of an entry whose key stands in one of those relations to the title.
C2_FuzzySoundComplete ==
    (rpc = "resolved") =>
        LET k == normalize_title(title)
        IN /\ (result = None) <=> ~(\E i \in 1..Len(lookup) : Related(lookup[i].key, k))
           /\ (result # None) =>
                 \E i \in 1..Len(lookup) :
                     Related(lookup[i].key, k) /\ lookup[i].val = result

\* a title that is no key was resolved through a key that properly contains it
C2_Witness ==
    /\ rpc = "resolved"
    /\ ~DictHas(lookup, normalize_title(title))
    /\ normalize_title(title) # <<>>
    /\ result # None
    /\ \E i \in 1..Len(lookup) :
          /\ lookup[i].val = result
          /\ IsSubstring(normalize_title(title), lookup[i].key)
          /\ ~IsSubstring(lookup[i].key, normalize_title(title))

-----------------------------------------------------------------------------
(* Claims about the grouping engine *)

Resolution(li) == resolve_item(ItemTitle(li), lookup)

Unresolvable(li) == ItemTitle(li) # <<>> /\ Resolution(li) = None

Resolvable(li) == ItemTitle(li) # <<>> /\ Resolution(li) # None

\* b is the bullet line of an item titled t
BulletOfTitle(b, t) ==
    \/ b = <<"*", " ">> \o t
    \/ /\ Len(b) >= Len(t) + 4
       /\ SubSeq(b, 1, Len(t) + 4) = <<"*", " ">> \o t \o <<":", " ">>

\* t labels no entry of either grouping
AbsentFromGrouped(t) ==
    /\ \A mj \in DOMAIN grouped : \A sb \in DOMAIN grouped[mj] :
          \A k \in 1..Len(grouped[mj][sb]) : grouped[mj][sb][k].label # t
    /\ \A sb \in DOMAIN fgrouped :
          \A k \in 1..Len(fgrouped[sb]) : ~BulletOfTitle(fgrouped[sb][k], t)

\* the walk went on: every resolvable item met so far has its entry
ResolvedAllPresent ==
    \A j \in 1..Len(data) :
        Resolvable(data[j]) =>
            LET r == Resolution(data[j])
            IN IF variant = "util"
               THEN /\ r[1] \in DOMAIN grouped
                    /\ r[2] \in DOMAIN grouped[r[1]]
                    /\ \E k \in 1..Len(grouped[r[1]][r[2]]) :
                          grouped[r[1]][r[2]][k] = DetailedItem(data[j])
               ELSE /\ r[2] \in DOMAIN fgrouped
                    /\ \E k \in 1..Len(fgrouped[r[2]]) :
                          fgrouped[r[2]][k] = Bullet(data[j])

InUnmatched(t) == \E k \in 1..Len(unmatched) : unmatched[k] = t

\* C3 as stated: in both grouping operations, a line item with a non-empty
\* title that does not resolve (a) is not added to the grouped content, (b) has
\* its title recorded in the unmapped-titles diagnostics and (c) does not stop
\* the walk.
C3_UnmappedRecorded ==
    \A j \in 1..Len(data) :
        Unresolvable(data[j]) =>
            /\ AbsentFromGrouped(ItemTitle(data[j]))
            /\ InUnmatched(ItemTitle(data[j]))
            /\ ResolvedAllPresent

\* what both operations do: (a) and (c); (b) in group_by_subsection only
C3_UnmappedDropped ==
    \A j \in 1..Len(data) :
        Unresolvable(data[j]) =>
            /\ AbsentFromGrouped(ItemTitle(data[j]))
            /\ (variant = "fill") => InUnmatched(ItemTitle(data[j]))
            /\ ResolvedAllPresent

SeenTag(cs, tag) == \E i \in 1..Len(cs) : Lower(cs[i].type) = tag

\* the dominance rule, stated without reference to the order of the comments
DominantSeverity(cs) ==
    IF SeenTag(cs, STR_defect) THEN STR_defect
    ELSE IF SeenTag(cs, STR_limit) THEN STR_limit
    ELSE STR_info

\* the entry group_items_detailed appended for the last line item walked
LastEntry ==
    LET r == Resolution(data[Len(data)])
        l == grouped[r[1]][r[2]]
    IN l[Len(l)]

\* C4: the severity group_items_detailed gives an item is defect if any of
\* its comments is tagged defect, else limit if any is tagged limit, else
\* info; the order of the comments does not matter.
C4_SeverityDominance ==
    (variant = "util" /\ data # <<>> /\ Resolvable(data[Len(data)])) =>
        LastEntry.type = DominantSeverity(data[Len(data)].comments)

\* an item was grouped as defect although a limit comment follows its defect
C4_Witness ==
    /\ variant = "util"
    /\ data # <<>>
    /\ Resolvable(data[Len(data)])
    /\ LET cs == data[Len(data)].comments
       IN \E i, j \in 1..Len(cs) :
             /\ i < j
             /\ Lower(cs[i].type) = STR_defect
             /\ Lower(cs[j].type) = STR_limit
    /\ LastEntry.type = STR_defect

\* some line item walked so far resolves to (mj, sb)
Received(mj, sb) ==
    \E j \in 1..Len(data) :
        Resolvable(data[j]) /\ Resolution(data[j]) = <<mj, sb>>

ReceivedSub(sb) ==
    \E j \in 1..Len(data) :
        Resolvable(data[j]) /\ Resolution(data[j])[2] = sb

\* C6: every major key of the grouped content has at least one subsection,
\* every subsection key has a non-empty list, and a subsection that received
\* no item is no key.
C6_AbsenceNotEmptiness ==
    /\ \A mj \in DOMAIN grouped :
          /\ DOMAIN grouped[mj] # {}
          /\ \A sb \in DOMAIN grouped[mj] :
                grouped[mj][sb] # <<>> /\ Received(mj, sb)
    /\ \A sb \in DOMAIN fgrouped :
          fgrouped[sb] # <<>> /\ ReceivedSub(sb)

\* items were grouped, and an unresolvable item and an untitled one were
\* walked without leaving a key behind
C6_Witness ==
    /\ DOMAIN grouped \cup DOMAIN fgrouped # {}
    /\ \E j \in 1..Len(data) : Unresolvable(data[j])
    /\ \A mj \in DOMAIN grouped : \A sb \in DOMAIN grouped[mj] : grouped[mj][sb] # <<>>
    /\ \A sb \in DOMAIN fgrouped : fgrouped[sb] # <<>>

-----------------------------------------------------------------------------
(* Claims about the status aggregator *)

\* C5: the status of the empty list is {I:F, NI:F, NP:T, D:F}; of a non-empty
\* list I = T, NI = F, NP = F and D = T exactly when some item is a defect.
\* So exactly one of I and NP holds, NI never holds and D implies I.
C5_StatusAggregation ==
    (spc = "done") =>
        /\ (items = <<>>) =>
              status = [I |-> FALSE, NI |-> FALSE, NP |-> TRUE, D |-> FALSE]
        /\ (items # <<>>) =>
              /\ status.I /\ ~status.NI /\ ~status.NP
              /\ status.D <=> (\E i \in 1..Len(items) : items[i].type = STR_defect)
        /\ status.I # status.NP
        /\ ~status.NI
        /\ status.D => status.I

\* a list whose defect is not its last item was reported deficient
C5_Witness ==
    /\ spc = "done"
    /\ Len(items) >= 2
    /\ items[1].type = STR_defect
    /\ items[Len(items)].type # STR_defect
    /\ status = [I |-> TRUE, NI |-> FALSE, NP |-> FALSE, D |-> TRUE]

-----------------------------------------------------------------------------
(* Claims about the layout allocator *)

\* the pairs processed so far that had content
ContentPairs == {k \in 1..Len(payload_log) : payload_log[k].kind # "no mapped items"}

\* the widget a log record names
WidgetOf(e) ==
    LET ws == page_widgets[e.page]
    IN ws[CHOOSE k \in 1..Len(ws) : ws[k].name = e.name]

\* estimateCapacity(region.area, 8pt) of the record's region
EstimateOf(e) == estimate_visible_chars(WidgetOf(e).area, FONT_PT)

\* the rendered block of the record's subsection
BlockOf(e) == BlockText(e.subsection, fgrouped[e.subsection])

Written(e) == e.kind = "wrote"

FieldOf(e) == fields[<<e.page, e.name>>]

InOverflow(sub) == sub \in DOMAIN narrative_overflow

FullOrTruncate(e, cap) ==
    IF Len(BlockOf(e)) <= cap
    THEN /\ Written(e) => FieldOf(e) = BlockOf(e)
         /\ ~InOverflow(e.subsection)
    ELSE /\ Written(e) => FieldOf(e) = Slice(BlockOf(e), 1, cap) \o CONTINUED
         /\ InOverflow(e.subsection)
         /\ narrative_overflow[e.subsection] = fgrouped[e.subsection]

\* C8 as stated: with cap = 0.7 x estimateCapacity(area, 8pt) truncated to an
\* integer, a block no longer than cap is written unchanged and its subsection
\* is not in overflow; a longer block is written as block[:cap] and the
\* continuation marker, and all items of the subsection are in overflow.
C8_FullOrTruncate ==
    \A k \in ContentPairs :
        FullOrTruncate(payload_log[k], (7 * EstimateOf(payload_log[k])) \div 10)

\* the same rule with the capacity as the double product gives it
C8_FullOrTruncateDoubleCap ==
    \A k \in ContentPairs :
        FullOrTruncate(payload_log[k], SafetyMargin(EstimateOf(payload_log[k])))

-----------------------------------------------------------------------------
(* Claims about the text-fit helpers *)

\* the sizes the call tries: from the start size down to the minimum, by the
\* function's step
FitCandidates ==
    {s \in f_min..f_start :
        (f_start - s) % (IF f_fn = "fit_font_size" THEN 4 ELSE 2) = 0}

FitsAt(s) == TextUnits(f_text) * s <= f_max_w

FittingSizes == {s \in FitCandidates : FitsAt(s)}

FontFitHolds ==
    /\ f_size >= f_min
    /\ IF FittingSizes # {}
       THEN f_size \in FittingSizes /\ \A s \in FittingSizes : s <= f_size
       ELSE f_size = f_min

C9_FontFitInteger == (fpc = "done" /\ f_fn = "fit_font_size") => FontFitHolds

\* C9, fit_draw / _fit_draw called as the repository calls them (start not
\* below min_size, and a whole number of 0.5 steps above it): the claim holds.
C9_FontFitAligned ==
    (fpc = "done" /\ f_fn = "fit_draw" /\ f_start >= f_min
        /\ (f_start - f_min) % 2 = 0) => FontFitHolds

\* a 0.5-step run that went all the way down and drew below min_size
C9_DrawnBelowMin ==
    /\ fpc = "done"
    /\ f_fn = "fit_draw"
    /\ f_start > f_min
    /\ f_size < f_min

\* a shrink that stopped at a fitting size strictly between the two ends
C9_Witness ==
    /\ fpc = "done"
    /\ f_min < f_size
    /\ f_size < f_start
    /\ FitsAt(f_size)

ElideFitsWhole == TextUnits(e_text) * e_size <= e_max_w

\* prefix lengths k whose text[:k] + "..." is within the limit
ElideFittingK ==
    {k \in 0..Len(e_text) :
        TextUnits(Slice(e_text, 1, k) \o <<".", ".", ".">>) * e_size <= e_max_w}

ElideExpected ==
    IF ElideFitsWhole THEN e_text
    ELSE IF ElideFittingK = {} THEN <<".", ".", ".">>
    ELSE LET k == CHOOSE j \in ElideFittingK : \A m \in ElideFittingK : m <= j
         IN  Slice(e_text, 1, k) \o <<".", ".", ".">>

\* C10: elide_to_width returns the text unchanged when it fits; otherwise it
\* returns text[:k] + "..." for the largest k in 0..len(text) whose candidate
\* is within the limit, and "..." alone when no k qualifies; and the binary
\* search terminates for every input.
C10_ElideLargestPrefix ==
    /\ [](epc = "done" => e_result = ElideExpected)
    /\ <>(epc = "done")

\* a search that kept a proper, non-empty prefix after more than one step
C10_Witness ==
    /\ epc = "done"
    /\ ~ElideFitsWhole
    /\ Len(e_result) > 3
    /\ Len(e_result) < Len(e_text) + 3
    /\ hi < Len(e_text) - 1

\* a search that found no fitting prefix and returned the ellipsis alone
C10_WitnessNone ==
    /\ epc = "done"
    /\ ~ElideFitsWhole
    /\ ElideFittingK = {}
    /\ e_result = <<".", ".", ".">>

-----------------------------------------------------------------------------
(* Claims about normalize_title *)

\* a letter that str.lower() replaces by another
IsUpper(c) == c \in {"A", "B", "D", "L"}

\* no leading or trailing whitespace, no two whitespace characters in a row,
\* no upper-case letter
CleanKey(k) ==
    /\ k # <<>> => ~(k[1] \in {" ", "\t"}) /\ ~(k[Len(k)] \in {" ", "\t"})
    /\ \A i \in 1..(Len(k) - 1) : ~(k[i] \in {" ", "\t"} /\ k[i + 1] \in {" ", "\t"})
    /\ \A i \in 1..Len(k) : ~IsUpper(k[i])

-----------------------------------------------------------------------------
(* Claims about the entry points *)

MissingInput == ~(Required(entry) \subseteq present)

\* C12: in every entry point, if any required input file is missing the run
\* raises, and at the moment it aborts no output or intermediate file has
\* been written.
C12_AbsenceBeforeOutput ==
    MissingInput => (outcome # "done" /\ (outcome = "raised" => written = {}))

\* C12 for the entry points that test their inputs first: fill_pdf_form,
\* build_expanded_report and acform_probe_and_fill_all.
C12_AbsenceBeforeOutputChecked ==
    (MissingInput /\ entry # "script") =>
        (outcome # "done" /\ (outcome = "raised" => written = {}))

\* script.main aborted on the missing template after writing the body PDF
C12_BodyWrittenThenRaised ==
    /\ entry = "script"
    /\ "TEMPLATE" \notin present
    /\ outcome = "raised"
    /\ "BODY" \in written

-----------------------------------------------------------------------------
(* Claims about a rejected field write *)

FailedEntries == {k \in 1..Len(payload_log) : payload_log[k].kind = "FAILED"}

\* the step appends a FAILED record to the payload diagnostics
FailedStep ==
    /\ Len(payload_log') = Len(payload_log) + 1
    /\ payload_log'[Len(payload_log')].kind = "FAILED"

\* what the loop does for a pair apart from the write itself
AsIfNotAttempted ==
    LET e == payload_log'[Len(payload_log')]
    IN  /\ fields' = fields
        /\ ix' = ix + 1
        /\ apc' = apc
        /\ page_ix' = page_ix
        /\ widgets' = widgets
        /\ output' = output
        /\ e.page = PageNo
        /\ e.subsection = PAGE_SUBSECTIONS[PageNo][ix + 1]
        /\ e.name = widgets[ix + 1].name
        /\ IF e.chars > e.cap
           THEN /\ e.subsection \in DOMAIN narrative_overflow'
                /\ \A s \in DOMAIN narrative_overflow :
                      s # e.subsection => narrative_overflow'[s] = narrative_overflow[s]
           ELSE narrative_overflow' = narrative_overflow

\* the number of (subsection, widget) pairs of a page
PairsOfPage(p) == Min(Len(PAGE_SUBSECTIONS[p]), Len(Multiline(page_widgets[p])))

\* C13: when the field write for one region raises, the failure is recorded
\* in the payload diagnostics, no value is recorded as written for that
\* region, the loop goes on with the remaining subsections and pages as if
\* the write had not been attempted, and the run still reaches the final
\* output write.
C13_FailedWriteIsNoOp ==
    /\ [][FailedStep => AsIfNotAttempted]_vars
    /\ [](\A k \in FailedEntries :
             /\ <<payload_log[k].page, payload_log[k].name>> \notin DOMAIN fields
             /\ payload_log[k].wrote = 0)
    /\ [](apc = "done" =>
             /\ output # None
             /\ output.fields = fields
             /\ Len(payload_log) = PairsOfPage(3) + PairsOfPage(4)
                                    + PairsOfPage(5) + PairsOfPage(6))
    /\ ((FailedEntries # {}) ~> (apc = "done"))

\* a run that finished with one write rejected and a later one accepted
C13_Witness ==
    /\ apc = "done"
    /\ output # None
    /\ \E k \in FailedEntries :
       \E j \in (k + 1)..Len(payload_log) : payload_log[j].kind = "wrote"

-----------------------------------------------------------------------------
(* Claims about media collection *)

\* a reference that can be resolved: the payload decodes, the file exists,
\* the fetch succeeds
ResolvableRef(r) == r.kind \in {"data_ok", "local_ok", "http_ok"}

TagOfRef(r) ==
    CASE r.kind = "data_ok" -> "datauri"
      [] r.kind = "local_ok" -> "local"
      [] r.kind = "http_ok" -> "remote"

\* the saved paths of the resolvable references among the first n, in order
RECURSIVE ExpectedOut(_, _)
ExpectedOut(refs, n) ==
    IF n = 0 THEN <<>>
    ELSE IF ResolvableRef(refs[n])
         THEN Append(ExpectedOut(refs, n - 1),
                     <<TagOfRef(refs[n]), Sha12(refs[n].content), <<".", "a">>>>)
         ELSE ExpectedOut(refs, n - 1)

\* C14: for every media reference that cannot be resolved (missing local
\* file, malformed inline data-URI payload, failed or timed-out remote fetch)
\* _collect_images omits exactly that reference from the returned list, keeps
\* every resolvable reference in its original relative order, and never raises.
C14_MediaFailureLocal ==
    /\ mpc # "raised"
    /\ mpc = "done" => m_out = ExpectedOut(m_refs, Len(m_refs))

\* a string or path-key reference that pathlib rejects when it is tried as a
\* local path
RejectedAsPath(r) ==
    r.form \in {"str", "path"} /\ r.kind \in {"local_badname", "data_bad_long"}

\* C14 for line items none of whose failing references is rejected by
\* pathlib: the failing references are omitted, the others kept in order.
C14_MediaFailureLocalResolvedPaths ==
    (\A k \in 1..Len(m_refs) : ~RejectedAsPath(m_refs[k])) =>
        /\ mpc # "raised"
        /\ mpc = "done" => m_out = ExpectedOut(m_refs, Len(m_refs))

\* a malformed data-URI string made _collect_images raise after an earlier
\* reference had been saved
C14_RaisedOnMalformedDataUri ==
    /\ mpc = "raised"
    /\ m_out # <<>>
    /\ m_refs[m_ix].kind = "data_bad_long"
    /\ m_refs[m_ix].form = "str"

\* C15: the expanded-report pipeline (build_flow_pdf, group_items_detailed,
\* _collect_images) never performs a remote HTTP(S) fetch: an http(s) image
\* reference results in no network request and no embedded image.
C15_NoRemoteFetch ==
    /\ m_requests = <<>>
    /\ \A k \in 1..Len(m_out) : m_out[k][1] # "remote"

\* an http reference was fetched and its file is in the returned list
C15_FetchedAndEmbedded ==
    /\ mpc = "done"
    /\ m_requests # <<>>
    /\ \E k \in 1..Len(m_out) : m_out[k][1] = "remote"

-----------------------------------------------------------------------------
(* Claims about _save_bytes *)

-----------------------------------------------------------------------------
(* Claims about prepend_trec_pages *)

\* nothing has been created, modified or removed
NoFileTouched ==
    /\ p_touched = {}
    /\ p_out = p_out0

C18_AtomicWrite ==
    /\ [](p_out \in {p_out0, "final"})
    /\ [](p_out = "final" => ppc \in {"cleanup", "done"})
    /\ [][p_out' # p_out =>
             (ppc = "replace" /\ p_tmp = "complete" /\ p_out' = "final")]_vars

\* the write of the temporary output failed half way: out_pdf still holds the
\* old file
C18_Witness ==
    /\ ppc = "raised"
    /\ p_tmp = "partial"
    /\ p_out0 = "old"
    /\ p_out = "old"
    /\ "tmp_out" \in p_touched

\* the call ran to its end and out_pdf holds the final document
C18_WitnessDone ==
    /\ ppc = "done"
    /\ p_out0 = "old"
    /\ p_out = "final"
    /\ p_tmp = "absent"

-----------------------------------------------------------------------------
(* Claims about the order of resolution *)

\* entry i of the lookup matches the key k by containment, either way
Contains(i, k) == IsSubstring(k, lookup[i].key) \/ IsSubstring(lookup[i].key, k)

\* C19: when the normalized title is itself a lookup key, resolve_item returns
\* that key's value even if an earlier entry would match by containment; when
\* it is not a key, resolve_item returns the value of the first entry, in the
\* lookup's insertion order, whose key contains or is contained in the
\* normalized title.
C19_ExactThenFirst ==
    (rpc = "resolved") =>
        LET k == normalize_title(title)
        IN  /\ \A i \in 1..Len(lookup) : lookup[i].key = k => result = lookup[i].val
            /\ (~(\E i \in 1..Len(lookup) : lookup[i].key = k)) =>
                  \A i \in 1..Len(lookup) :
                      (Contains(i, k) /\ \A j \in 1..(i - 1) : ~Contains(j, k))
                          => result = lookup[i].val

\* the title is the key of the second entry while the first entry, with
\* another value, matches it by containment
C19_Witness ==
    /\ rpc = "resolved"
    /\ Len(lookup) >= 2
    /\ lookup[2].key = normalize_title(title)
    /\ lookup[1].key # lookup[2].key
    /\ IsSubstring(lookup[1].key, lookup[2].key)
    /\ lookup[1].val # lookup[2].val
    /\ result = lookup[2].val

\* the title is no key and two entries with different values match it by
\* containment: the first one is returned
C19_WitnessFirst ==
    /\ rpc = "resolved"
    /\ Len(lookup) >= 2
    /\ ~DictHas(lookup, normalize_title(title))
    /\ Contains(1, normalize_title(title))
    /\ Contains(2, normalize_title(title))
    /\ lookup[1].val # lookup[2].val
    /\ result = lookup[1].val

-----------------------------------------------------------------------------
(* Claims about the order of the grouped entries *)

\* for each line item met so far, in the order of the walk, what it resolves
\* to, or None for an item that is skipped
ResolutionsOf ==
    [j \in 1..Len(data) |->
        IF ItemTitle(data[j]) = <<>> THEN None ELSE Resolution(data[j])]

\* C20: at every point of the walk of group_items_detailed, for every major
\* and subsection, grouped[major][subsection] is the list of the entries of
\* the resolved line items met so far that map to it, one entry per item and
\* in the order the items were met; a subsection is present exactly when some
\* resolved item maps to it.
C20_EncounterOrder ==
    (variant = "util") =>
        LET res == ResolutionsOf
            met(mj, sb) ==
                SelectSeq([j \in 1..Len(data) |-> j], LAMBDA j : res[j] = <<mj, sb>>)
        IN /\ \A mj \in DOMAIN grouped : \A sb \in DOMAIN grouped[mj] :
                 LET m == met(mj, sb)
                 IN /\ m # <<>>
                    /\ grouped[mj][sb] = [k \in 1..Len(m) |-> DetailedItem(data[m[k]])]
           /\ \A j \in 1..Len(data) :
                 (res[j] # None) =>
                     /\ res[j][1] \in DOMAIN grouped
                     /\ res[j][2] \in DOMAIN grouped[res[j][1]]

\* the first and the last item met map to the same subsection with different
\* entries, and the list holds the first one's entry before the last one's
C20_Witness ==
    /\ variant = "util"
    /\ Len(data) >= 2
    /\ Resolvable(data[1])
    /\ Resolvable(data[Len(data)])
    /\ Resolution(data[1]) = Resolution(data[Len(data)])
    /\ DetailedItem(data[1]) # DetailedItem(data[Len(data)])
    /\ LET r == Resolution(data[1])
       IN /\ r[1] \in DOMAIN grouped
          /\ r[2] \in DOMAIN grouped[r[1]]
          /\ grouped[r[1]][r[2]] =
                <<DetailedItem(data[1]), DetailedItem(data[Len(data)])>>

\* the same item was met twice for one subsection: it has two entries
C20_WitnessTwice ==
    /\ variant = "util"
    /\ Len(data) >= 2
    /\ Resolvable(data[1])
    /\ data[2] = data[1]
    /\ LET r == Resolution(data[1])
       IN /\ r[1] \in DOMAIN grouped
          /\ r[2] \in DOMAIN grouped[r[1]]
          /\ Len(grouped[r[1]][r[2]]) >= 2

-----------------------------------------------------------------------------
(* Claims about region selection and pairing *)

\* the diagnostics of page p, in the order they were recorded
LogOfPage(p) == SelectSeq(payload_log, LAMBDA e : e.page = p)

\* positions, in the page's widget list, of the multi-line-capable widgets
CandidatesOf(p) == {k \in 1..Len(page_widgets[p]) : page_widgets[p][k].multiline}

\* candidates of page p that lie higher than candidate k, or as high with a
\* larger area
Above(p, k) ==
    LET ws == page_widgets[p]
    IN {m \in CandidatesOf(p) :
           ws[m].y > ws[k].y \/ (ws[m].y = ws[k].y /\ ws[m].area > ws[k].area)}

\* candidates of page p with the vertical position and area of candidate k
Level(p, k) ==
    LET ws == page_widgets[p]
    IN {m \in CandidatesOf(p) : ws[m].y = ws[k].y /\ ws[m].area = ws[k].area}

\* candidate k of page p can stand at place j of the order: higher first, and
\* larger first among equally high
HasPlace(p, k, j) ==
    /\ Cardinality(Above(p, k)) < j
    /\ j <= Cardinality(Above(p, k)) + Cardinality(Level(p, k))

C21_WitnessArea ==
    /\ apc = "done"
    /\ Len(page_widgets[3]) = 2
    /\ page_widgets[3][1].multiline
    /\ page_widgets[3][2].multiline
    /\ page_widgets[3][1].y = page_widgets[3][2].y
    /\ page_widgets[3][1].area < page_widgets[3][2].area
    /\ Len(LogOfPage(3)) = 2
    /\ LogOfPage(3)[1].kind = "wrote"
    /\ LogOfPage(3)[1].name = page_widgets[3][2].name

\* a single-line widget listed first was passed over
C21_WitnessSingleLine ==
    /\ apc = "done"
    /\ Len(page_widgets[3]) = 2
    /\ ~page_widgets[3][1].multiline
    /\ page_widgets[3][2].multiline
    /\ Len(LogOfPage(3)) = 1
    /\ LogOfPage(3)[1].kind = "wrote"
    /\ LogOfPage(3)[1].name = page_widgets[3][2].name

-----------------------------------------------------------------------------
(* Claims about subsections without content *)

\* the regions of page p in pairing order
RegionsOf(p) == SortWidgets(Multiline(page_widgets[p]))

\* a step that records a "no mapped items" diagnostic
NoItemsStep ==
    /\ Len(payload_log') = Len(payload_log) + 1
    /\ payload_log'[Len(payload_log')].kind = "no mapped items"

\* C22: when the subsection paired with a region has no grouped items, the
\* step records exactly one "no mapped items" diagnostic and changes neither
\* the field values nor the overflow; the region's field never gets a value
\* (not the empty one either), no other subsection is paired with that
\* region, and the subsection has no overflow entry.
C22_NoContentUntouched ==
    /\ [][NoItemsStep =>
             /\ fields' = fields
             /\ narrative_overflow' = narrative_overflow
             /\ SubSeq(payload_log', 1, Len(payload_log)) = payload_log
             /\ payload_log'[Len(payload_log')].subsection =
                    PAGE_SUBSECTIONS[PageNo][ix + 1]
             /\ ItemsOf(fgrouped, PAGE_SUBSECTIONS[PageNo][ix + 1]) = <<>>
             /\ ix' = ix + 1]_vars
    /\ [](\A p \in {3, 4, 5, 6} :
             \A j \in 1..Len(LogOfPage(p)) :
                 (LogOfPage(p)[j].kind = "no mapped items") =>
                     /\ <<p, RegionsOf(p)[j].name>> \notin DOMAIN fields
                     /\ \A i \in 1..Len(LogOfPage(p)) :
                           LogOfPage(p)[i].name # RegionsOf(p)[j].name
                     /\ LogOfPage(p)[j].subsection \notin DOMAIN narrative_overflow
                     /\ \A i \in 1..Len(LogOfPage(p)) :
                           (i # j) => LogOfPage(p)[i].subsection # LogOfPage(p)[j].subsection)

\* page 3 has two regions; the first subsection had no items and the second
\* was written to the second region, the first region being left without a value
C22_Witness ==
    /\ apc = "done"
    /\ Len(LogOfPage(3)) = 2
    /\ LogOfPage(3)[1].kind = "no mapped items"
    /\ LogOfPage(3)[2].kind = "wrote"
    /\ LogOfPage(3)[2].name = RegionsOf(3)[2].name
    /\ <<3, RegionsOf(3)[1].name>> \notin DOMAIN fields
    /\ <<3, RegionsOf(3)[2].name>> \in DOMAIN fields

-----------------------------------------------------------------------------
(* Claims about what becomes of the grouped content *)

\* a value was written for the subsection to some region
WrittenFor(sub) ==
    \E k \in 1..Len(payload_log) :
        payload_log[k].kind = "wrote" /\ payload_log[k].subsection = sub

\* the subsection's items are in narrative_overflow
Deferred(sub) == InOverflow(sub) /\ narrative_overflow[sub] = fgrouped[sub]

\* the subsection met a region in the allocation loop
Paired(sub) ==
    \E k \in 1..Len(payload_log) : payload_log[k].subsection = sub

\* C24 as stated: when the allocation has ended, every subsection with at
\* least one grouped item has a value written for it to some region or has
\* its items in narrative_overflow.
C24_NoContentLost ==
    (apc = "done") => \A sub \in DOMAIN fgrouped : WrittenFor(sub) \/ Deferred(sub)

\* what the loop does keep: a subsection with items whose write was accepted
\* has its value in a field, and one whose block exceeded the cap is deferred
C24_PairedContentKept ==
    \A k \in ContentPairs :
        LET e == payload_log[k]
        IN /\ Written(e) => <<e.page, e.name>> \in DOMAIN fields
           /\ (e.chars > e.cap) => Deferred(e.subsection)

\* a run ended with items for "Foundations" and no multi-line region on page
\* 3: the subsection met no region and is not deferred
C24_LostWithoutRegion ==
    /\ apc = "done"
    /\ "Foundations" \in DOMAIN fgrouped
    /\ Multiline(page_widgets[3]) = <<>>
    /\ ~Paired("Foundations")
    /\ ~WrittenFor("Foundations")
    /\ ~InOverflow("Foundations")

\* a run ended with items under a canonical name that no page lists
C24_LostOffPages ==
    /\ apc = "done"
    /\ "Private Sewage Systems" \in DOMAIN fgrouped
    /\ \A p \in {3, 4, 5, 6} : \A k \in 1..Len(PAGE_SUBSECTIONS[p]) :
          PAGE_SUBSECTIONS[p][k] # "Private Sewage Systems"
    /\ ~WrittenFor("Private Sewage Systems")
    /\ ~InOverflow("Private Sewage Systems")

-----------------------------------------------------------------------------
(* Claims about content whose field write was rejected *)

\* C25 as stated: whenever the field write for a region raised, the paired
\* subsection's items are in narrative_overflow, whether the block exceeded
\* the cap or fit within it.
C25_ContentSurvivesRejectedWrite ==
    \A k \in FailedEntries : Deferred(payload_log[k].subsection)

\* the part that holds: a rejected write of a block longer than the cap
C25_SurvivesWhenOverCap ==
    \A k \in FailedEntries :
        (payload_log[k].chars > payload_log[k].cap) => Deferred(payload_log[k].subsection)

\* a run ended after the write of a block that fit was rejected: the
\* subsection has neither a field value nor an overflow entry
C25_LostWhenFit ==
    /\ apc = "done"
    /\ \E k \in FailedEntries :
          /\ payload_log[k].chars <= payload_log[k].cap
          /\ ~InOverflow(payload_log[k].subsection)
          /\ <<payload_log[k].page, payload_log[k].name>> \notin DOMAIN fields

-----------------------------------------------------------------------------
(* Claims about the length of the written value *)

\* C29 as stated: the string written to a region, the full block or the
\* truncated block with the continuation marker, is never longer than
\* estimate_visible_chars(area, 8.0) for that region.
C29_WrittenWithinEstimate ==
    \A k \in ContentPairs :
        Written(payload_log[k]) => Len(FieldOf(payload_log[k])) <= EstimateOf(payload_log[k])

\* the part that holds: a block written in full is within the estimate, and a
\* truncated one exceeds the cap by the length of the marker
C29_WrittenWithinCapAndMarker ==
    \A k \in ContentPairs :
        LET e == payload_log[k]
        IN Written(e) =>
              /\ e.cap <= EstimateOf(e)
              /\ IF e.chars <= e.cap
                 THEN Len(FieldOf(e)) = e.chars /\ Len(FieldOf(e)) <= EstimateOf(e)
                 ELSE Len(FieldOf(e)) = e.cap + Len(CONTINUED)

\* a region whose estimate is 9 received the 6 first characters of a block
\* and the marker: 33 characters
C29_WrittenBeyondEstimate ==
    \E k \in ContentPairs :
        /\ Written(payload_log[k])
        /\ EstimateOf(payload_log[k]) = 9
        /\ payload_log[k].cap = 6
        /\ Len(FieldOf(payload_log[k])) = 33

-----------------------------------------------------------------------------
(* Claims about empty keys *)

\* the title is empty after normalization
EmptyKey(t) == normalize_title(t) = <<>>

\* the title is not empty after normalization, is no key of the lookup, and
\* is related by containment to no key other than the empty one
MatchesNoProperKey(t) ==
    /\ ~EmptyKey(t)
    /\ \A i \in 1..Len(lookup) :
          (lookup[i].key # <<>>) =>
              /\ lookup[i].key # normalize_title(t)
              /\ ~Contains(i, normalize_title(t))

\* C26 as stated: a line item whose title is empty after normalization
\* (whitespace only, or none at all) is skipped and labels no entry of the
\* grouped content; and a title that matches no non-empty key labels no entry
\* either, whatever entry with the empty key the lookup holds.
C26_EmptyKeysNeverMatch ==
    \A j \in 1..Len(data) :
        (EmptyKey(ItemTitle(data[j])) \/ MatchesNoProperKey(ItemTitle(data[j])))
            => AbsentFromGrouped(ItemTitle(data[j]))

\* the part that holds: an item with no title at all is skipped, and with no
\* empty key in the lookup a title that matches no key labels no entry
C26_MissingTitleSkipped ==
    \A j \in 1..Len(data) :
        /\ (ItemTitle(data[j]) = <<>>) => AbsentFromGrouped(ItemTitle(data[j]))
        /\ (MatchesNoProperKey(ItemTitle(data[j])) /\ ~DictHas(lookup, <<>>))
               => AbsentFromGrouped(ItemTitle(data[j]))

\* the walk met, as its only item, one titled " " under a lookup without the
\* empty key: it resolved to the first entry of the lookup and has an entry
\* in the grouped content
C26_WhitespaceTitleGrouped ==
    /\ Len(data) = 1
    /\ data[1].title = <<" ">>
    /\ ~DictHas(lookup, <<>>)
    /\ Resolution(data[1]) = lookup[1].val
    /\ ~AbsentFromGrouped(<<" ">>)

\* the walk met, as its only item, one titled "c" under a lookup whose keys
\* are "ab" and the empty one: it resolved through the empty key and has an
\* entry in the grouped content
C26_GroupedByEmptyKey ==
    /\ Len(data) = 1
    /\ data[1].title = <<"c">>
    /\ Len(lookup) = 2
    /\ lookup[2].key = <<>>
    /\ MatchesNoProperKey(<<"c">>)
    /\ Resolution(data[1]) = lookup[2].val
    /\ ~AbsentFromGrouped(<<"c">>)

-----------------------------------------------------------------------------
(* Claims about deferred page emission *)

\* C23: no page is emitted before save; while save runs the pages emitted so
\* far are the first saved ones; after k showPage calls and one save exactly
\* k pages are emitted, the i-th with the content of the i-th showPage call
\* and the label "Page (page_offset + i) of (page_offset + k)", so that the
\* page number of a label is at most its total.
C23_DeferredEmission ==
    /\ (cpc = "open") => c_emitted = <<>>
    /\ (cpc = "saving") => Len(c_emitted) = c_ix /\ c_ix <= Len(c_calls)
    /\ (cpc = "closed") => Len(c_emitted) = Len(c_calls)
    /\ \A i \in 1..Len(c_emitted) :
          /\ c_emitted[i].code = c_calls[i]
          /\ c_emitted[i].label.n = c_offset + i
          /\ c_emitted[i].label.of = c_offset + Len(c_calls)
          /\ c_emitted[i].label.n <= c_emitted[i].label.of

\* three pages with different contents were shown and saved with an offset
\* of 2: the last one is "Page 5 of 5"
C23_Witness ==
    /\ cpc = "closed"
    /\ c_offset = 2
    /\ Len(c_calls) = 3
    /\ c_calls[1] # c_calls[2]
    /\ Len(c_emitted) = 3
    /\ c_emitted[1].label = [n |-> 3, of |-> 5]
    /\ c_emitted[3].label = [n |-> 5, of |-> 5]
    /\ c_emitted[1].code = c_calls[1]
    /\ c_emitted[2].code = c_calls[2]

-----------------------------------------------------------------------------
(* Claims about the download cache *)

\* the complete content of a successful fetch of url
Complete(url) == [of |-> url, part |-> "all"]

\* C27 as stated: every local path returned for a URL holds the complete
\* content of a successful fetch of that same URL, whatever calls came
\* before, failed ones and ones for other URLs with the same file name
\* included.
C27_CacheIntegrity ==
    \A i \in 1..Len(d_hist) :
        (d_hist[i].path # None) => d_hist[i].held = Complete(d_hist[i].url)

\* the part that holds: a path returned after a fetch of its own holds the
\* complete content, a failed call returns no path, and download_to_cache
\* never returns an empty file
C27_FreshFetchComplete ==
    \A i \in 1..Len(d_hist) :
        /\ (d_hist[i].path # None /\ ~d_hist[i].hit) => d_hist[i].held = Complete(d_hist[i].url)
        /\ (d_hist[i].path # None /\ d_class = "bonus_pdf") => d_hist[i].held.part # "none"

\* a fetch was cut after some chunks and the next call for the same URL
\* returned the partial file as a cache hit
C27_PartialReturned ==
    /\ Len(d_hist) = 2
    /\ d_hist[1].path = None
    /\ d_hist[2].url = d_hist[1].url
    /\ d_hist[2].hit
    /\ d_hist[2].path # None
    /\ d_hist[2].held = [of |-> d_hist[2].url, part |-> "some"]

\* a call for one URL returned the file fetched for another URL with the
\* same file name
C27_OtherUrlReturned ==
    /\ Len(d_hist) = 2
    /\ d_hist[1].path # None
    /\ d_hist[2].url # d_hist[1].url
    /\ d_hist[2].hit
    /\ d_hist[2].held = Complete(d_hist[1].url)

-----------------------------------------------------------------------------
(* Claims about the rendering order of build_flow_pdf *)

\* the items the story holds under major m and subsection s, in story order
RenderedItems(m, s) ==
    LET es == SelectSeq(story, LAMBDA e : e.kind = "item" /\ e.major = m /\ e.sub = s)
    IN [k \in 1..Len(es) |-> es[k].item]

\* the story has the heading of major m
HasHeading(m) == \E j \in 1..Len(story) : story[j] = [kind |-> "major", major |-> m]

\* position of major m in ORDERED_MAJOR, and of subsection s in m's fixed list
MajorRank(m) == CHOOSE k \in 1..Len(ORDERED_MAJOR) : ORDERED_MAJOR[k] = m

Listed(m, s) ==
    \E k \in 1..Len(MAJOR_TO_SUBSECTION_ORDER[m]) : MAJOR_TO_SUBSECTION_ORDER[m][k] = s

SubRank(m, s) ==
    CHOOSE k \in 1..Len(MAJOR_TO_SUBSECTION_ORDER[m]) : MAJOR_TO_SUBSECTION_ORDER[m][k] = s

\* the entries of the story follow ORDERED_MAJOR, then the major's fixed
\* subsection order
CanonicalOrder ==
    \A i, j \in 1..Len(story) :
        (i < j) =>
            /\ MajorRank(story[i].major) <= MajorRank(story[j].major)
            /\ (story[i].major = story[j].major /\ story[i].kind # "major"
                    /\ story[j].kind # "major") =>
                   SubRank(story[i].major, story[i].sub) <= SubRank(story[j].major, story[j].sub)
            /\ (story[i].major = story[j].major) => story[j].kind # "major"

\* C28 as stated: when the story is built, every item of the grouped content
\* is in it exactly once, under its major and subsection and in encounter
\* order, whether or not the subsection name is in the fixed list of its
\* major; the story follows the canonical order; and a major heading is
\* present if and only if one of the major's subsections has items.
C28_EveryItemOnce ==
    (wpc = "done") =>
        /\ \A m \in DOMAIN grouped : \A s \in DOMAIN grouped[m] :
              RenderedItems(m, s) = grouped[m][s]
        /\ CanonicalOrder
        /\ \A k \in 1..Len(ORDERED_MAJOR) :
              HasHeading(ORDERED_MAJOR[k]) <=> ORDERED_MAJOR[k] \in DOMAIN grouped

\* the part that holds: the same for the subsections the fixed list of the
\* major names, a heading being present if and only if one of those has items
C28_ListedItemsOnce ==
    (wpc = "done") =>
        /\ \A m \in DOMAIN grouped : \A s \in DOMAIN grouped[m] :
              Listed(m, s) => RenderedItems(m, s) = grouped[m][s]
        /\ CanonicalOrder
        /\ \A k \in 1..Len(ORDERED_MAJOR) :
              LET m == ORDERED_MAJOR[k]
              IN HasHeading(m) <=>
                     \E j \in 1..Len(MAJOR_TO_SUBSECTION_ORDER[m]) :
                         GetItems(grouped, m, MAJOR_TO_SUBSECTION_ORDER[m][j]) # <<>>

\* the story was built from grouped content with items under "Windows" of the
\* second major, whose list has no such name: neither the items nor, for lack
\* of another subsection, the major's heading are in the story
C28_ItemOmitted ==
    /\ wpc = "done"
    /\ "II. ELECTRICAL SYSTEMS" \in DOMAIN grouped
    /\ DOMAIN grouped["II. ELECTRICAL SYSTEMS"] = {"Windows"}
    /\ "I. STRUCTURAL SYSTEMS" \in DOMAIN grouped
    /\ RenderedItems("II. ELECTRICAL SYSTEMS", "Windows") = <<>>
    /\ ~HasHeading("II. ELECTRICAL SYSTEMS")
    /\ HasHeading("I. STRUCTURAL SYSTEMS")

-----------------------------------------------------------------------------
(* Claims about severity_bucket *)

\* C30 as stated: severity_bucket returns one of the seven buckets; a tag
\* containing "safety" yields Safety Hazard whatever the type; a comment whose
\* type is "warning" and whose tag does not contain "safety" is classified as
\* Warning.
C30_SeverityBucket ==
    (bpc = "done") =>
        /\ b_bucket \in BadgeBuckets
        /\ IsSubstring(STR_safety, normalize(b_comment.tag)) => b_bucket = "Safety Hazard"
        /\ (normalize(b_comment.type) = STR_warning
               /\ ~IsSubstring(STR_safety, normalize(b_comment.tag))) => b_bucket = "Warning"

\* the part that holds: one of the seven buckets, and Safety Hazard for a tag
\* containing "safety"
C30_BucketAndSafetyTag ==
    (bpc = "done") =>
        /\ b_bucket \in BadgeBuckets
        /\ IsSubstring(STR_safety, normalize(b_comment.tag)) => b_bucket = "Safety Hazard"

\* no comment is classified as Warning
C30_NeverWarning == b_bucket # "Warning"

\* a comment of type "warning" without any tag was classified as Safety Hazard
C30_WarningAsSafetyHazard ==
    /\ bpc = "done"
    /\ b_comment.type = STR_warning
    /\ b_comment.tag = <<>>
    /\ b_bucket = "Safety Hazard"

====
